---- MODULE Spec2Model ----
(***************************************************************************)
(* Model of the TypedJSON deserialization engine (class Deserializer,      *)
(* src/src/typedjson/deserializer.ts) with the helpers it calls            *)
(* (helpers: src/unnamed/part_000, options: options-base.ts).              *)
(*                                                                         *)
(* JavaScript values are tagged records.  A call of one of the public      *)
(* conversion methods is evaluated by a recursive operator that returns an *)
(* outcome [thrown, val, log]: whether the call raised, the value returned *)
(* (or the error raised), and the ordered list of observable events (calls *)
(* of the error handler, of custom deserializers, of the initializer, the  *)
(* constructor and the onDeserialized hook) the call produced.             *)
(***************************************************************************)
EXTENDS Integers, Sequences, FiniteSets, TLC

\* ------------------------------------------------------------------ bounds
\* Longest ordered sequence handed to convertAsArray / Set / Map.
MaxLen == 2

\* ------------------------------------------------------------------ values
Undefined == [t |-> "undefined"]
Null      == [t |-> "null"]
Num(n)    == [t |-> "number", n |-> n]
Str(s)    == [t |-> "string", s |-> s]
Bool(b)   == [t |-> "boolean", b |-> b]
\* A JavaScript Array: e is the sequence of its elements.
Arr(e)    == [t |-> "array", e |-> e]
\* A plain object: p is the sequence of its own properties [k, v] in
\* insertion order (the order Object.keys enumerates).
Obj(p)    == [t |-> "object", p |-> p]
\* An instance created by a class constructor or an initializer callback.
Inst(cls, p) == [t |-> "instance", cls |-> cls, p |-> p]
\* Built-in results.
DateOf(src)        == [t |-> "Date", src |-> src]
TypedArr(kind, e)  == [t |-> "typedarray", kind |-> kind, e |-> e]
Buffer(kind, s)    == [t |-> "buffer", kind |-> kind, s |-> s]
SetOf(e)           == [t |-> "Set", e |-> e]
MapOf(p)           == [t |-> "Map", p |-> p]
\* A raised TypeError, told apart by the message it carries: the kind of
\* failure and, where the message names one, the member it is about.
ErrAt(kind, at) == [t |-> "error", kind |-> kind, at |-> at]
Err(kind)       == ErrAt(kind, "")

Prop(k, v) == [k |-> k, v |-> v]

\* Own-property read obj[key]: the value of the last property named key.
RECURSIVE GetProp(_, _)
GetProp(p, key) ==
    IF p = <<>> THEN Undefined
    ELSE IF p[Len(p)].k = key THEN p[Len(p)].v
    ELSE GetProp(SubSeq(p, 1, Len(p) - 1), key)

HasProp(p, key) == \E i \in 1..Len(p) : p[i].k = key

\* obj[key] = v : overwrite in place, or append a new own property.
SetProp(p, key, v) ==
    IF HasProp(p, key)
    THEN [i \in 1..Len(p) |-> IF p[i].k = key THEN Prop(key, v) ELSE p[i]]
    ELSE Append(p, Prop(key, v))

\* Object.assign(target, source) on property lists.
RECURSIVE AssignProps(_, _)
AssignProps(target, source) ==
    IF source = <<>> THEN target
    ELSE AssignProps(SetProp(target, source[1].k, source[1].v), Tail(source))

\* typeof
TypeOf(v) ==
    CASE v.t = "undefined" -> "undefined"
      [] v.t = "number"    -> "number"
      [] v.t = "string"    -> "string"
      [] v.t = "boolean"   -> "boolean"
      [] OTHER             -> "object"

IsArray(v) == v.t = "array"

\* value.constructor for the values a parsed JSON text can hold.
ConstructorOf(v) ==
    CASE v.t = "number"   -> "Number"
      [] v.t = "string"   -> "String"
      [] v.t = "boolean"  -> "Boolean"
      [] v.t = "array"    -> "Array"
      [] v.t = "instance" -> v.cls
      [] v.t = "Date"     -> "Date"
      [] v.t = "Set"      -> "Set"
      [] v.t = "Map"      -> "Map"
      [] OTHER            -> "Object"

\* JavaScript truthiness of a value.
Truthy(v) ==
    CASE v.t = "undefined" -> FALSE
      [] v.t = "null"      -> FALSE
      [] v.t = "number"    -> v.n # 0
      [] v.t = "string"    -> v.s # ""
      [] v.t = "boolean"   -> v.b
      [] OTHER             -> TRUE

\* ---------------------------------------------------------------- helpers
isValueDefined(v) == ~(TypeOf(v) = "undefined" \/ v.t = "null")

\* nameof(fn): a constructor is written as its name.
nameof(fn) == fn

\* ------------------------------------------------------------ options-base
\* An options object is NoOptions (undefined) or [preserveNull |-> x] with x
\* "true", "false" or "unset" (the key is not present).
NoOptions == [none |-> TRUE]
Opt(x)    == [preserveNull |-> x]
OptionValues == {NoOptions, Opt("true"), Opt("false"), Opt("unset")}

getDefaultOptionOf(key) == FALSE

\* mergeOptions with the precedence the wrong way round.
mergeOptionsKeepingExisting(existing, moreSpecific) ==
    IF existing = NoOptions THEN moreSpecific
    ELSE IF moreSpecific = NoOptions THEN existing
    ELSE IF existing.preserveNull # "unset" THEN existing
    ELSE moreSpecific

mergeOptions(existing, moreSpecific) ==
    IF moreSpecific = NoOptions THEN existing
    ELSE IF existing = NoOptions THEN moreSpecific
    ELSE IF moreSpecific.preserveNull # "unset" THEN moreSpecific
    ELSE existing

getOptionValue(key, options) ==
    IF options # NoOptions /\ options.preserveNull # "unset"
    THEN options.preserveNull = "true"
    ELSE getDefaultOptionOf(key)

\* ------------------------------------------------- metadata registry
\* The classes known to JsonObjectMetadata when a conversion starts.  A
\* member descriptor carries the fields injectMetadataInformation receives
\* from jsonMember: name (the source key the member is read from), key (the
\* property it is stored under), ctor, elementType, keyType, isRequired,
\* deserializer and options.  "undefined" stands for an absent ctor, key
\* type, deserializer or callback.
Member(name, key, ctor, elementType, keyType, isRequired, deserializer, options) ==
    [name |-> name, key |-> key, ctor |-> ctor, elementType |-> elementType,
     keyType |-> keyType, isRequired |-> isRequired,
     deserializer |-> deserializer, options |-> options]

\* A plain jsonMember: same name and key, no container types.
Plain(key, ctor, isRequired, options) ==
    Member(key, key, ctor, <<>>, "undefined", isRequired, "undefined", options)

PersonMembers ==
    << Plain("name", "String", TRUE, NoOptions),
       Plain("age", "Number", FALSE, NoOptions),
       Member("nick", "nickname", "String", <<>>, "undefined", TRUE, "undefined", Opt("true")) >>

\* Class metadata: classType, registered name ("" when none), parent class
\* ("" when none), isExplicitlyMarked, dataMembers, knownTypes,
\* initializerCallback, onDeserializedMethodName, options; and what the
\* class itself looks like: the properties its constructor sets and the
\* instance and static methods it has.
Class(classType, name, parent, explicit, members, known, init, hook, options, ctorSets, imeth, smeth) ==
    [classType |-> classType, name |-> name, parent |-> parent,
     isExplicitlyMarked |-> explicit, dataMembers |-> members,
     knownTypes |-> known, initializerCallback |-> init,
     onDeserializedMethodName |-> hook, options |-> options,
     ctorSets |-> ctorSets, instanceMethods |-> imeth, staticMethods |-> smeth]

Simple(classType, parent, members) ==
    Class(classType, "", parent, TRUE, members, {}, "undefined", "", NoOptions, <<>>, {}, {})

IdMember == << Plain("id", "Number", TRUE, NoOptions) >>

\* The classes registered (decorated) before any conversion begins.
RegisteredClasses ==
    { Class("Person", "", "", TRUE, PersonMembers, {"Student", "Robot"},
            "undefined", "", NoOptions, << Prop("age", Num(0)) >>, {}, {}),
      Simple("Student", "Person",
             PersonMembers \o << Plain("school", "String", FALSE, NoOptions) >>),
      Class("Robot", "Droid", "", TRUE, << Plain("model", "String", TRUE, NoOptions) >>, {},
            "undefined", "", NoOptions, <<>>, {}, {}),
      Class("Pet", "", "", TRUE,
            << Plain("name", "String", TRUE, NoOptions),
               Plain("kind", "String", TRUE, Opt("false")),
               Member("motto", "motto", "String", <<>>, "undefined", TRUE, "orDefault", Opt("unset")),
               Member("raw", "raw", "undefined", <<>>, "undefined", TRUE, "identity", NoOptions) >>,
            {}, "undefined", "", Opt("true"), <<>>, {}, {}),
      Simple("Team", "",
             << Plain("lead", "Person", TRUE, NoOptions),
                Member("scores", "scores", "Array", << "Number" >>, "undefined", FALSE, "undefined", NoOptions),
                Plain("size", "Number", FALSE, NoOptions) >>),
      Class("InitOk", "", "", TRUE, IdMember, {}, "ok", "", NoOptions, <<>>, {}, {}),
      Class("InitUnrelated", "", "", TRUE, IdMember, {}, "unrelated", "", NoOptions, <<>>, {}, {}),
      Class("InitNull", "", "", TRUE, IdMember, {}, "null", "", NoOptions, <<>>, {}, {}),
      Class("InitUndefined", "", "", TRUE, IdMember, {}, "undefined value", "", NoOptions, <<>>, {}, {}),
      Class("InitSubtype", "", "", TRUE, IdMember, {}, "subtype", "", NoOptions, <<>>, {}, {}),
      Simple("InitSubtypeChild", "InitSubtype", IdMember),
      Class("InitThrows", "", "", TRUE, IdMember, {}, "throws", "", NoOptions, <<>>, {}, {}),
      Simple("Holder", "",
             << Plain("bad", "InitUnrelated", TRUE, NoOptions),
                Plain("none", "InitNull", FALSE, NoOptions),
                Plain("good", "InitOk", TRUE, NoOptions),
                Plain("n", "Number", FALSE, NoOptions) >>),
      Class("HookInstance", "", "", TRUE, IdMember, {}, "undefined", "afterLoad", NoOptions,
            <<>>, {"afterLoad"}, {}),
      Class("HookStatic", "", "", TRUE, IdMember, {}, "undefined", "afterLoad", NoOptions,
            <<>>, {}, {"afterLoad"}),
      Class("HookBoth", "", "", TRUE, IdMember, {}, "undefined", "afterLoad", NoOptions,
            <<>>, {"afterLoad"}, {"afterLoad"}),
      Class("HookMissing", "", "", TRUE, IdMember, {}, "undefined", "afterLoad", NoOptions,
            <<>>, {}, {}),
      Class("Broken", "", "", TRUE,
            << Member("first", "first", "Number", <<>>, "undefined", FALSE, "identity", NoOptions),
               Plain("bad", "undefined", FALSE, NoOptions),
               Member("last", "last", "Number", <<>>, "undefined", FALSE, "identity", NoOptions) >>,
            {}, "ok", "afterLoad", NoOptions, <<>>, {"afterLoad"}, {}),
      Class("Implicit", "", "", FALSE, <<>>, {"Robot"}, "undefined", "", NoOptions, <<>>, {}, {}) }

\* User classes without any metadata.
UnregisteredClasses == {"Bare"}

VARIABLES
    registry,       \* the metadata JsonObjectMetadata holds, per class
    typeResolver,   \* this._typeResolver
    nameResolver,   \* this._nameResolver
    errorHandler,   \* this._errorHandler
    options,        \* this.options
    call,           \* the call just made: [op, sourceObject, typeInfo, memberOptions]
    before,         \* the engine before that call
    outcome         \* the outcome of that call

vars == <<registry, typeResolver, nameResolver, errorHandler, options, call, before, outcome>>

HasMetadata(ctor) == \E c \in registry : c.classType = ctor

\* JsonObjectMetadata.getFromConstructor, for a ctor that HasMetadata.
getFromConstructor(ctor) == CHOOSE c \in registry : c.classType = ctor

ParentOf(ctor) == IF HasMetadata(ctor) THEN getFromConstructor(ctor).parent ELSE ""

\* A.prototype instanceof B: B is a proper ancestor of A.
RECURSIVE PrototypeInstanceOf(_, _)
PrototypeInstanceOf(A, B) ==
    LET P == ParentOf(A)
    IN  IF B = "Object" /\ A # "Object" THEN TRUE
        ELSE IF P = "" THEN FALSE
        ELSE P = B \/ PrototypeInstanceOf(P, B)

isSubtypeOf(A, B) == A = B \/ PrototypeInstanceOf(A, B)

\* InstanceOf as an exact test of the value's constructor.
InstanceOfExactly(v, ctor) ==
    v.t \in {"instance", "object", "array", "Date", "Set", "Map"}
    /\ ConstructorOf(v) = ctor

\* value instanceof ctor, for the values an initializer callback returns.
InstanceOf(v, ctor) ==
    v.t \in {"instance", "object", "array", "Date", "Set", "Map"}
    /\ isSubtypeOf(ConstructorOf(v), ctor)

\* --------------------------------------------------------------- outcomes
\* An observable event: what happened (ev), to what (arg: the message of the
\* error handed to the handler, the member a deserializer belongs to, the
\* class of an initializer or constructor, the kind of hook), and the
\* arguments or receiver user code was called with.
Called(ev, arg, args) == [ev |-> ev, arg |-> arg, args |-> args]

Ev(ev, arg) == Called(ev, arg, <<>>)

\* The call returned v / raised e, having produced the events of log.
Ret(v, log)   == [thrown |-> FALSE, val |-> v, log |-> log]
Throw(e, log) == [thrown |-> TRUE, val |-> e, log |-> log]

\* The engine ("this"): [typeResolver, nameResolver, errorHandler, options].
\* this._errorHandler(e): the default handler (logError) and a collecting
\* handler return; a rethrowing handler raises the error it was given.
\* The event of an error reaching the handler carries the error's message.
Message(e) == IF e.at = "" THEN e.kind ELSE e.kind \o " " \o e.at

\* CallErrorHandler with what the handler raises swallowed.
CallErrorHandlerSwallowing(self, e, log) ==
    Ret(Undefined, Append(log, Ev("error", Message(e))))

CallErrorHandler(self, e, log) ==
    IF self.errorHandler = "rethrow"
    THEN Throw(e, Append(log, Ev("error", Message(e))))
    ELSE Ret(Undefined, Append(log, Ev("error", Message(e))))

retrievePreserveNull(self, memberOptions) ==
    getOptionValue("preserveNull", mergeOptions(self.options, memberOptions))

\* A scope type info; an absent elementConstructor list and an empty one
\* are told apart by hasElementConstructor.
TypeInfo(selfConstructor, hasElem, elementConstructor, keyConstructor, knownTypes) ==
    [selfConstructor |-> selfConstructor, hasElementConstructor |-> hasElem,
     elementConstructor |-> elementConstructor, keyConstructor |-> keyConstructor,
     knownTypes |-> knownTypes]

\* _isDirectlyDeserializableNativeType with Boolean left out of the list.
_isDirectlyDeserializableNativeTypeWithoutBoolean(ctor) == ctor \in {"Number", "String"}

_isDirectlyDeserializableNativeType(ctor) == ctor \in {"Number", "String", "Boolean"}

\* Number(value) as used by isNaN and the typed-array constructors;
\* [nan, n].  Only "" and "7" are numeric among the strings of the model.
RECURSIVE ToNumber(_)
ToNumber(v) ==
    CASE v.t = "number"    -> [nan |-> FALSE, n |-> v.n]
      [] v.t = "boolean"   -> [nan |-> FALSE, n |-> IF v.b THEN 1 ELSE 0]
      [] v.t = "null"      -> [nan |-> FALSE, n |-> 0]
      [] v.t = "string"    -> IF v.s = "" THEN [nan |-> FALSE, n |-> 0]
                              ELSE IF v.s = "7" THEN [nan |-> FALSE, n |-> 7]
                              ELSE [nan |-> TRUE, n |-> 0]
      [] v.t = "array"     -> IF v.e = <<>> THEN [nan |-> FALSE, n |-> 0]
                              ELSE IF Len(v.e) = 1 /\ v.e[1].t \in {"number", "string", "array"}
                              THEN ToNumber(v.e[1])
                              ELSE IF Len(v.e) = 1 /\ v.e[1].t \in {"null", "undefined"}
                              THEN [nan |-> FALSE, n |-> 0]
                              ELSE [nan |-> TRUE, n |-> 0]
      [] OTHER             -> [nan |-> TRUE, n |-> 0]

TypedArrayKinds ==
    {"Float32Array", "Float64Array", "Uint8Array", "Uint8ClampedArray",
     "Uint16Array", "Uint32Array"}

\* The element a typed array of the kind stores for source element v
\* (the integer kinds are filled from ~~value).  A Uint32Array element is
\* given by its 32-bit pattern read as a signed number: -1 is 2^32 - 1.
TypedElement(kind, v) ==
    LET n == ToNumber(v).n
    IN  CASE kind = "Uint8Array"        -> n % 256
          [] kind = "Uint8ClampedArray" -> IF n < 0 THEN 0 ELSE IF n > 255 THEN 255 ELSE n
          [] kind = "Uint16Array"       -> n % 65536
          [] OTHER                      -> n

\* Set.prototype.add and Map.prototype.set: primitives are compared by
\* value, every converted object is a fresh object.
IsPrimitive(v) == v.t \in {"undefined", "null", "number", "string", "boolean"}

SetAdd(e, v) ==
    IF IsPrimitive(v) /\ \E i \in 1..Len(e) : e[i] = v THEN e ELSE Append(e, v)

MapSet(p, key, v) ==
    IF IsPrimitive(key) /\ \E i \in 1..Len(p) : p[i].k = key
    THEN [i \in 1..Len(p) |-> IF p[i].k = key THEN Prop(key, v) ELSE p[i]]
    ELSE Append(p, Prop(key, v))

\* The own enumerable properties of a value of typeof "object".
OwnProps(v) ==
    CASE v.t \in {"object", "instance"} -> v.p
      [] v.t = "array" -> [i \in 1..Len(v.e) |-> Prop(ToString(i - 1), v.e[i])]
      [] OTHER -> <<>>

\* value[key]; the caller has excluded undefined and null.
ReadProp(v, key) == GetProp(OwnProps(v), key)

\* ------------------------------------------------------------ known types
\* A Map<string, Function> is a set of <<name, ctor>> pairs, one per name.
MapGet(m, name) ==
    IF \E q \in m : q[1] = name THEN (CHOOSE q \in m : q[1] = name)[2] ELSE "undefined"

\* The name the installed name resolver gives to a constructor.
ResolveName(self, ctor) == "ns." \o ctor

\* True when calling this._nameResolver raises (it is not a function).
NameResolverRaises(self) == self.nameResolver = "notCallable"

\* Deserializer._mergeKnownTypes(a, b), given that no call of the name
\* resolver raises.
_mergeKnownTypes(self, a, b) ==
    LET key(q) == IF self.nameResolver # "undefined" THEN ResolveName(self, q[2]) ELSE q[1]
        ra == {<<key(q), q[2]>> : q \in a}
        rb == {<<key(q), q[2]>> : q \in b}
    IN  {q \in ra : ~\E r \in rb : r[1] = q[1]} \cup rb

\* Deserializer._createKnownTypesMap(knownTypes), same proviso.
_createKnownTypesMap(self, knowTypes) ==
    LET nameOf(ctor) ==
            IF self.nameResolver # "undefined" THEN ResolveName(self, ctor)
            ELSE IF HasMetadata(ctor) /\ getFromConstructor(ctor).isExplicitlyMarked
                    /\ getFromConstructor(ctor).name # ""
                 THEN getFromConstructor(ctor).name
                 ELSE ctor
    IN  {<<nameOf(ctor), ctor>> : ctor \in knowTypes}

\* this._typeResolver(sourceObject, knownTypes): the default resolver looks
\* the __type property up; the custom resolvers of the model answer one
\* constructor for every source object.
CallTypeResolver(self, sourceObject, knownTypes) ==
    CASE self.typeResolver = "default" ->
            LET hint == ReadProp(sourceObject, "__type")
            IN  IF Truthy(hint)
                THEN IF hint.t = "string" THEN MapGet(knownTypes, hint.s) ELSE "undefined"
                ELSE "undefined"
      [] self.typeResolver = "alwaysRobot"   -> "Robot"
      [] self.typeResolver = "alwaysStudent" -> "Student"
      [] OTHER -> "undefined"

\* ------------------------------------------------------------ user code
\* A custom member deserializer applied to the source value.
CallDeserializer(kind, json) ==
    CASE kind = "orDefault" -> IF isValueDefined(json) THEN json ELSE Str("default")
      [] OTHER -> json

\* What an initializer callback of the given behaviour answers, as an
\* outcome, for the class it is registered on.
CallInitializer(meta, staged) ==
    CASE meta.initializerCallback = "ok"        -> Ret(Inst(meta.classType, <<>>), <<>>)
      [] meta.initializerCallback = "unrelated" -> Ret(Inst("Robot", <<>>), <<>>)
      [] meta.initializerCallback = "subtype"   -> Ret(Inst("InitSubtypeChild", <<>>), <<>>)
      [] meta.initializerCallback = "null"      -> Ret(Null, <<>>)
      [] meta.initializerCallback = "throws"    -> Throw(Err("InitializerError"), <<>>)
      [] OTHER                                  -> Ret(Undefined, <<>>)

\* The instance methods an object of the class has, own and inherited.
RECURSIVE InstanceMethods(_)
InstanceMethods(cls) ==
    IF ~HasMetadata(cls) THEN {}
    ELSE getFromConstructor(cls).instanceMethods
         \cup (IF ParentOf(cls) = "" THEN {} ELSE InstanceMethods(ParentOf(cls)))

RECURSIVE StaticMethods(_)
StaticMethods(cls) ==
    IF ~HasMetadata(cls) THEN {}
    ELSE getFromConstructor(cls).staticMethods
         \cup (IF ParentOf(cls) = "" THEN {} ELSE StaticMethods(ParentOf(cls)))

\* ------------------------------------------------------------- the engine
\* Body(value), with the value computed once before Body uses it.
Let(value, Body(_)) == CHOOSE y \in {Body(x) : x \in {value}} : TRUE

\* The sequence f[1], ..., f[Len(f)], every element computed.
Computed(f) == SubSeq(f, 1, Len(f))

\* The loops of the engine (Array.map, forEach) are written in two parts:
\* the conversion of every element visited, each an outcome of its own, and
\* the pass over these outcomes in order that the loop body makes (catch,
\* error handler, store), which stops where an error leaves the loop.
RECURSIVE convertSingleValue(_, _, _, _)
RECURSIVE convertAsObject(_, _, _, _)
RECURSIVE convertAsArray(_, _, _, _)
RECURSIVE convertAsSet(_, _, _, _)
RECURSIVE convertAsMap(_, _, _, _)

\* The type info convertAsArray and convertAsSet build for their elements
\* and convertAsMap builds for its values.
\* elementTypeInfo handing the key constructor of the container down.
elementTypeInfoKeepingKey(typeInfo) ==
    TypeInfo(typeInfo.elementConstructor[1], TRUE,
             IF Len(typeInfo.elementConstructor) > 1
             THEN Tail(typeInfo.elementConstructor) ELSE <<>>,
             typeInfo.keyConstructor, typeInfo.knownTypes)

elementTypeInfo(typeInfo) ==
    TypeInfo(typeInfo.elementConstructor[1], TRUE,
             IF Len(typeInfo.elementConstructor) > 1
             THEN Tail(typeInfo.elementConstructor) ELSE <<>>,
             "undefined", typeInfo.knownTypes)

keyTypeInfo(typeInfo) ==
    TypeInfo(typeInfo.keyConstructor, FALSE, <<>>, "undefined", typeInfo.knownTypes)

missingElementConstructor(typeInfo) ==
    ~typeInfo.hasElementConstructor \/ Len(typeInfo.elementConstructor) = 0

convertSingleValue(self, sourceObject, typeInfo, memberOptions) ==
    LET expectedSelfType == typeInfo.selfConstructor
    IN  IF retrievePreserveNull(self, memberOptions) /\ sourceObject.t = "null"
        THEN Ret(Null, <<>>)
        ELSE IF ~isValueDefined(sourceObject)
        THEN Ret(Undefined, <<>>)
        ELSE IF _isDirectlyDeserializableNativeType(expectedSelfType)
        THEN IF ConstructorOf(sourceObject) = expectedSelfType
             THEN Ret(sourceObject, <<>>)
             ELSE Throw(Err("TypeMismatch"), <<>>)
        ELSE IF expectedSelfType = "Date"
        THEN IF TypeOf(sourceObject) = "string"
                \/ (TypeOf(sourceObject) = "number" /\ sourceObject.n > 0)
             THEN Ret(DateOf(sourceObject), <<>>)
             ELSE Throw(Err("TypeMismatch"), <<>>)
        ELSE IF expectedSelfType \in TypedArrayKinds
        THEN IF IsArray(sourceObject)
                /\ \A i \in 1..Len(sourceObject.e) : ~ToNumber(sourceObject.e[i]).nan
             THEN Ret(TypedArr(expectedSelfType,
                        [i \in 1..Len(sourceObject.e) |->
                            TypedElement(expectedSelfType, sourceObject.e[i])]), <<>>)
             ELSE Throw(Err("TypeMismatch"), <<>>)
        ELSE IF expectedSelfType \in {"ArrayBuffer", "DataView"}
        THEN IF TypeOf(sourceObject) = "string"
             THEN Ret(Buffer(expectedSelfType, sourceObject.s), <<>>)
             ELSE Throw(Err("TypeMismatch"), <<>>)
        ELSE IF expectedSelfType = "Array"
        THEN IF IsArray(sourceObject)
             THEN convertAsArray(self, sourceObject, typeInfo, memberOptions)
             ELSE Throw(Err("TypeMismatch"), <<>>)
        ELSE IF expectedSelfType = "Set"
        THEN IF IsArray(sourceObject)
             THEN convertAsSet(self, sourceObject, typeInfo, memberOptions)
             ELSE Throw(Err("TypeMismatch"), <<>>)
        ELSE IF expectedSelfType = "Map"
        THEN IF IsArray(sourceObject)
             THEN convertAsMap(self, sourceObject, typeInfo, memberOptions)
             ELSE Throw(Err("TypeMismatch"), <<>>)
        ELSE IF Truthy(sourceObject) /\ TypeOf(sourceObject) = "object"
        THEN convertAsObject(self, sourceObject, typeInfo, memberOptions)
        ELSE Ret(Undefined, <<>>)

RECURSIVE arrayMap(_, _, _, _)

\* arrayMap with a catch block that leaves the failed slot out.
RECURSIVE arrayMapDroppingFailed(_, _, _, _)
arrayMapDroppingFailed(self, converted, acc, log) ==
    IF converted = <<>> THEN Ret(Arr(acc), log)
    ELSE LET r == Head(converted)
             h == CallErrorHandler(self, r.val, log \o r.log)
         IN  IF ~r.thrown
             THEN arrayMapDroppingFailed(self, Tail(converted), Append(acc, r.val), log \o r.log)
             ELSE IF h.thrown THEN h
             ELSE arrayMapDroppingFailed(self, Tail(converted), acc, h.log)

\* The callback of sourceObject.map in convertAsArray over the element
\* conversions still to visit: acc holds the slots filled so far.
arrayMap(self, converted, acc, log) ==
    IF converted = <<>> THEN Ret(Arr(acc), log)
    ELSE LET r == Head(converted)
             h == CallErrorHandler(self, r.val, log \o r.log)
         IN  IF ~r.thrown
             THEN arrayMap(self, Tail(converted), Append(acc, r.val), log \o r.log)
             ELSE IF h.thrown THEN h
             ELSE arrayMap(self, Tail(converted), Append(acc, Undefined), h.log)

\* The not-an-Array report of the three container operations: reading
\* sourceObject.constructor of undefined or null raises before the error
\* handler is called.
reportNotArray(self, sourceObject) ==
    IF ~isValueDefined(sourceObject)
    THEN Throw(Err("NativeTypeError"), <<>>)
    ELSE CallErrorHandler(self, Err("TypeMismatch"), <<>>)

\* convertAsArray handing the source back unconverted when the descriptor
\* names no element type.
convertAsArrayPassingThrough(self, sourceObject, typeInfo, memberOptions) ==
    IF ~IsArray(sourceObject)
    THEN LET h == reportNotArray(self, sourceObject)
         IN  IF h.thrown THEN h ELSE Ret(Arr(<<>>), h.log)
    ELSE IF missingElementConstructor(typeInfo)
    THEN LET h == CallErrorHandler(self, Err("MissingElementConstructor"), <<>>)
         IN  IF h.thrown THEN h ELSE Ret(sourceObject, h.log)
    ELSE Let(Computed([i \in 1..Len(sourceObject.e) |->
                convertSingleValue(self, sourceObject.e[i], elementTypeInfo(typeInfo),
                                   memberOptions)]),
             LAMBDA converted : arrayMap(self, converted, <<>>, <<>>))

convertAsArray(self, sourceObject, typeInfo, memberOptions) ==
    IF ~IsArray(sourceObject)
    THEN LET h == reportNotArray(self, sourceObject)
         IN  IF h.thrown THEN h ELSE Ret(Arr(<<>>), h.log)
    ELSE IF missingElementConstructor(typeInfo)
    THEN LET h == CallErrorHandler(self, Err("MissingElementConstructor"), <<>>)
         IN  IF h.thrown THEN h ELSE Ret(Arr(<<>>), h.log)
    ELSE Let(Computed([i \in 1..Len(sourceObject.e) |->
                convertSingleValue(self, sourceObject.e[i], elementTypeInfo(typeInfo),
                                   memberOptions)]),
             LAMBDA converted : arrayMap(self, converted, <<>>, <<>>))

RECURSIVE setForEach(_, _, _, _)

\* setForEach with a catch block that adds undefined for the failed element.
RECURSIVE setForEachWithPlaceholder(_, _, _, _)
setForEachWithPlaceholder(self, converted, acc, log) ==
    IF converted = <<>> THEN Ret(SetOf(acc), log)
    ELSE LET r == Head(converted)
             h == CallErrorHandler(self, r.val, log \o r.log)
         IN  IF ~r.thrown
             THEN setForEachWithPlaceholder(self, Tail(converted), SetAdd(acc, r.val), log \o r.log)
             ELSE IF h.thrown THEN h
             ELSE setForEachWithPlaceholder(self, Tail(converted), SetAdd(acc, Undefined), h.log)

\* The callback of sourceObject.forEach in convertAsSet.
setForEach(self, converted, acc, log) ==
    IF converted = <<>> THEN Ret(SetOf(acc), log)
    ELSE LET r == Head(converted)
             h == CallErrorHandler(self, r.val, log \o r.log)
         IN  IF ~r.thrown
             THEN setForEach(self, Tail(converted), SetAdd(acc, r.val), log \o r.log)
             ELSE IF h.thrown THEN h
             ELSE setForEach(self, Tail(converted), acc, h.log)

convertAsSet(self, sourceObject, typeInfo, memberOptions) ==
    IF ~IsArray(sourceObject)
    THEN LET h == reportNotArray(self, sourceObject)
         IN  IF h.thrown THEN h ELSE Ret(SetOf(<<>>), h.log)
    ELSE IF missingElementConstructor(typeInfo)
    THEN LET h == CallErrorHandler(self, Err("MissingElementConstructor"), <<>>)
         IN  IF h.thrown THEN h ELSE Ret(SetOf(<<>>), h.log)
    ELSE Let(Computed([i \in 1..Len(sourceObject.e) |->
                convertSingleValue(self, sourceObject.e[i], elementTypeInfo(typeInfo),
                                   memberOptions)]),
             LAMBDA converted : setForEach(self, converted, <<>>, <<>>))

\* mapPairDone without the isValueDefined(key) test.
mapPairDoneAnyKey(k, v) ==
    IF k.thrown THEN k
    ELSE IF v.thrown THEN Throw(v.val, k.log \o v.log)
    ELSE Ret([set |-> TRUE, key |-> k.val, value |-> v.val], k.log \o v.log)

\* The try block of convertAsMap's forEach body for one element, given the
\* outcomes k and v of converting its key and its value: the outcome's val
\* is what the block does to the map, [set, key, value].
mapPairDone(k, v) ==
    IF k.thrown THEN k
    ELSE IF ~isValueDefined(k.val)
    THEN Ret([set |-> FALSE, key |-> Undefined, value |-> Undefined], k.log)
    ELSE IF v.thrown THEN Throw(v.val, k.log \o v.log)
    ELSE Ret([set |-> TRUE, key |-> k.val, value |-> v.val], k.log \o v.log)

\* The same for the element itself: reading element.key of undefined or
\* null raises.
mapPair(element, key, value) ==
    IF ~isValueDefined(element) THEN Throw(Err("NativeTypeError"), <<>>)
    ELSE Let(key, LAMBDA k : Let(value, LAMBDA v : mapPairDone(k, v)))

\* The callback of sourceObject.forEach in convertAsMap.
RECURSIVE mapForEach(_, _, _, _)
mapForEach(self, pairs, acc, log) ==
    IF pairs = <<>> THEN Ret(MapOf(acc), log)
    ELSE LET r == Head(pairs)
             h == CallErrorHandler(self, r.val, log \o r.log)
         IN  IF ~r.thrown
             THEN mapForEach(self, Tail(pairs),
                             IF r.val.set THEN MapSet(acc, r.val.key, r.val.value) ELSE acc,
                             log \o r.log)
             ELSE IF h.thrown THEN h
             ELSE mapForEach(self, Tail(pairs), acc, h.log)

convertAsMap(self, sourceObject, typeInfo, memberOptions) ==
    LET first == IF ~IsArray(sourceObject)
                 THEN reportNotArray(self, sourceObject)
                 ELSE Ret(Undefined, <<>>)
        noKey  == CallErrorHandler(self, Err("MissingKeyConstructor"), first.log)
        noElem == CallErrorHandler(self, Err("MissingElementConstructor"), first.log)
    IN  IF first.thrown THEN first
        ELSE IF typeInfo.keyConstructor = "undefined"
        THEN IF noKey.thrown THEN noKey ELSE Ret(MapOf(<<>>), noKey.log)
        ELSE IF missingElementConstructor(typeInfo)
        THEN IF noElem.thrown THEN noElem ELSE Ret(MapOf(<<>>), noElem.log)
        ELSE IF ~IsArray(sourceObject)
        THEN Throw(Err("NativeTypeError"), first.log)
        ELSE Let(Computed([i \in 1..Len(sourceObject.e) |->
                    LET element == sourceObject.e[i]
                    IN  mapPair(element,
                            convertSingleValue(self, ReadProp(element, "key"),
                                               keyTypeInfo(typeInfo), memberOptions),
                            convertSingleValue(self, ReadProp(element, "value"),
                                               elementTypeInfo(typeInfo), memberOptions))]),
                 LAMBDA pairs : mapForEach(self, pairs, <<>>, first.log))

\* this._mergeKnownTypes(known, this._createKnownTypesMap(meta.knownTypes))
\* as an outcome: calling a name resolver that is not a function raises as
\* soon as one of the maps has an entry.
mergeWithDeclared(self, known, meta, log) ==
    IF NameResolverRaises(self) /\ (known # {} \/ meta.knownTypes # {})
    THEN Throw(Err("NativeTypeError"), log)
    ELSE Ret(_mergeKnownTypes(self, known, _createKnownTypesMap(self, meta.knownTypes)), log)

\* The body of dataMembers.forEach over the members still to visit, given
\* the outcome revived[i] of reviving the value of member i; staged is
\* sourceObjectWithDeserializedProperties.  The outcome's val is the staged
\* property list.
RECURSIVE convertMembers(_, _, _, _, _, _)

\* convertMembers with a try/catch around the body that hands a raised error
\* to the error handler and goes on with the next member.
RECURSIVE convertMembersCatching(_, _, _, _, _, _)
convertMembersCatching(self, sourceMetadata, members, revived, staged, log) ==
    IF members = <<>> THEN Ret(staged, log)
    ELSE
    LET memberMetadata == Head(members)
        classOptions   == mergeOptions(self.options, sourceMetadata.options)
        memberOptions  == mergeOptions(classOptions, memberMetadata.options)
        memberNameForDebug == nameof(sourceMetadata.classType) \o "." \o memberMetadata.name
        r == Head(revived)
        c == CallErrorHandler(self, r.val, log \o r.log)
        h == CallErrorHandler(self, ErrAt("MissingRequiredMember", memberNameForDebug),
                              log \o r.log)
    IN  IF r.thrown
        THEN IF c.thrown THEN c
             ELSE convertMembersCatching(self, sourceMetadata, Tail(members), Tail(revived),
                                         staged, c.log)
        ELSE IF isValueDefined(r.val)
                \/ (retrievePreserveNull(self, memberOptions) /\ r.val.t = "null")
        THEN convertMembersCatching(self, sourceMetadata, Tail(members), Tail(revived),
                                    SetProp(staged, memberMetadata.key, r.val), log \o r.log)
        ELSE IF memberMetadata.isRequired
        THEN IF h.thrown THEN h
             ELSE convertMembersCatching(self, sourceMetadata, Tail(members), Tail(revived),
                                         staged, h.log)
        ELSE convertMembersCatching(self, sourceMetadata, Tail(members), Tail(revived),
                                    staged, log \o r.log)

convertMembers(self, sourceMetadata, members, revived, staged, log) ==
    IF members = <<>> THEN Ret(staged, log)
    ELSE
    LET memberMetadata == Head(members)
        classOptions   == mergeOptions(self.options, sourceMetadata.options)
        memberOptions  == mergeOptions(classOptions, memberMetadata.options)
        memberNameForDebug == nameof(sourceMetadata.classType) \o "." \o memberMetadata.name
        r == Head(revived)
        h == CallErrorHandler(self, ErrAt("MissingRequiredMember", memberNameForDebug),
                              log \o r.log)
    IN  IF r.thrown THEN Throw(r.val, log \o r.log)
        ELSE IF isValueDefined(r.val)
                \/ (retrievePreserveNull(self, memberOptions) /\ r.val.t = "null")
        THEN convertMembers(self, sourceMetadata, Tail(members), Tail(revived),
                            SetProp(staged, memberMetadata.key, r.val), log \o r.log)
        ELSE IF memberMetadata.isRequired
        THEN IF h.thrown THEN h
             ELSE convertMembers(self, sourceMetadata, Tail(members), Tail(revived),
                                 staged, h.log)
        ELSE convertMembers(self, sourceMetadata, Tail(members), Tail(revived),
                            staged, log \o r.log)

\* callOnDeserialized looking for the static method first.
callOnDeserializedStaticFirst(self, sourceObjectMetadata, targetObject, log) ==
    LET hook == sourceObjectMetadata.onDeserializedMethodName
        cls  == ConstructorOf(targetObject)
    IN  IF hook = "" THEN Ret(targetObject, log)
        ELSE IF hook \in StaticMethods(cls)
        THEN Ret(targetObject, Append(log, Called("hook", "static", << cls >>)))
        ELSE IF hook \in InstanceMethods(cls)
        THEN Ret(targetObject, Append(log, Called("hook", "instance", << targetObject >>)))
        ELSE LET h == CallErrorHandler(self, Err("InvalidHook"), log)
             IN  IF h.thrown THEN h ELSE Ret(targetObject, h.log)

\* The onDeserialized step on the populated target.
callOnDeserialized(self, sourceObjectMetadata, targetObject, log) ==
    LET hook == sourceObjectMetadata.onDeserializedMethodName
        cls  == ConstructorOf(targetObject)
    IN  IF hook = "" THEN Ret(targetObject, log)
        ELSE IF hook \in InstanceMethods(cls)
        THEN Ret(targetObject, Append(log, Called("hook", "instance", << targetObject >>)))
        ELSE IF hook \in StaticMethods(cls)
        THEN Ret(targetObject, Append(log, Called("hook", "static", << cls >>)))
        ELSE LET h == CallErrorHandler(self, Err("InvalidHook"), log)
             IN  IF h.thrown THEN h ELSE Ret(targetObject, h.log)

\* instantiate letting the error of an invalid initializer result escape.
instantiateRaising(self, sourceObjectMetadata, expectedSelfType, sourceObject, staged, log) ==
    IF sourceObjectMetadata.initializerCallback # "undefined"
    THEN LET c == CallInitializer(sourceObjectMetadata, staged)
             log1 == Append(log, Called("initializer", sourceObjectMetadata.classType,
                                        << Obj(staged), sourceObject >>))
             e == IF c.thrown THEN c.val ELSE Err("InvalidInitializerResult")
         IN  IF c.thrown \/ ~Truthy(c.val)
                \/ ~InstanceOf(c.val, sourceObjectMetadata.classType)
             THEN Throw(e, log1)
             ELSE callOnDeserialized(self, sourceObjectMetadata,
                    [c.val EXCEPT !.p = AssignProps(c.val.p, staged)], log1)
    ELSE callOnDeserialized(self, sourceObjectMetadata,
            Inst(expectedSelfType,
                 AssignProps(sourceObjectMetadata.ctorSets, staged)),
            Append(log, Ev("construct", expectedSelfType)))

\* instantiate with the default-constructed target handed to the hook
\* before the staged values are copied onto it.
instantiateHookBeforeAssign(self, sourceObjectMetadata, expectedSelfType, sourceObject, staged, log) ==
    IF sourceObjectMetadata.initializerCallback # "undefined"
    THEN LET c == CallInitializer(sourceObjectMetadata, staged)
             log1 == Append(log, Called("initializer", sourceObjectMetadata.classType,
                                        << Obj(staged), sourceObject >>))
             e == IF c.thrown THEN c.val ELSE Err("InvalidInitializerResult")
             h == CallErrorHandler(self, e, log1)
         IN  IF c.thrown \/ ~Truthy(c.val)
                \/ ~InstanceOf(c.val, sourceObjectMetadata.classType)
             THEN IF h.thrown THEN h ELSE Ret(Undefined, h.log)
             ELSE callOnDeserialized(self, sourceObjectMetadata,
                    [c.val EXCEPT !.p = AssignProps(c.val.p, staged)], log1)
    ELSE LET r == callOnDeserialized(self, sourceObjectMetadata,
                    Inst(expectedSelfType, sourceObjectMetadata.ctorSets),
                    Append(log, Ev("construct", expectedSelfType)))
         IN  IF r.thrown THEN r
             ELSE Ret([r.val EXCEPT !.p = AssignProps(r.val.p, staged)], r.log)

\* Instantiation, Object.assign and the hook, once the members are staged.
instantiate(self, sourceObjectMetadata, expectedSelfType, sourceObject, staged, log) ==
    IF sourceObjectMetadata.initializerCallback # "undefined"
    THEN LET c == CallInitializer(sourceObjectMetadata, staged)
             log1 == Append(log, Called("initializer", sourceObjectMetadata.classType,
                                        << Obj(staged), sourceObject >>))
             e == IF c.thrown THEN c.val ELSE Err("InvalidInitializerResult")
             h == CallErrorHandler(self, e, log1)
         IN  IF c.thrown \/ ~Truthy(c.val)
                \/ ~InstanceOf(c.val, sourceObjectMetadata.classType)
             THEN IF h.thrown THEN h ELSE Ret(Undefined, h.log)
             ELSE callOnDeserialized(self, sourceObjectMetadata,
                    [c.val EXCEPT !.p = AssignProps(c.val.p, staged)], log1)
    ELSE callOnDeserialized(self, sourceObjectMetadata,
            Inst(expectedSelfType,
                 AssignProps(sourceObjectMetadata.ctorSets, staged)),
            Append(log, Ev("construct", expectedSelfType)))

\* Untyped deserialization: the callback of Object.keys(sourceObject)
\* .forEach over the properties still to visit, given the outcome
\* converted[i] of converting the value of property i; acc is targetObject.
RECURSIVE convertOwnKeys(_, _, _, _)
convertOwnKeys(props, converted, acc, log) ==
    IF props = <<>> THEN Ret(Obj(acc), log)
    ELSE LET r == Head(converted)
         IN  IF r.thrown THEN Throw(r.val, log \o r.log)
             ELSE convertOwnKeys(Tail(props), Tail(converted),
                                 SetProp(acc, Head(props).k, r.val), log \o r.log)

\* resolveExpectedType without the subtype test.
resolveExpectedTypeAnyHint(expectedSelfType, typeFromTypeHint) ==
    IF typeFromTypeHint # "undefined" THEN typeFromTypeHint ELSE expectedSelfType

\* The type convertAsObject converts the source object as, given the
\* answer of the type resolver.
resolveExpectedType(expectedSelfType, typeFromTypeHint) ==
    IF typeFromTypeHint # "undefined" /\ isSubtypeOf(typeFromTypeHint, expectedSelfType)
    THEN typeFromTypeHint
    ELSE expectedSelfType

\* The known types convertAsObject starts from, as an outcome: those of
\* the type info merged with those the declared type registers.
declaredKnownTypes(self, sourceObjectTypeInfo) ==
    IF HasMetadata(sourceObjectTypeInfo.selfConstructor)
    THEN mergeWithDeclared(self, sourceObjectTypeInfo.knownTypes,
                           getFromConstructor(sourceObjectTypeInfo.selfConstructor), <<>>)
    ELSE Ret(sourceObjectTypeInfo.knownTypes, <<>>)

convertAsObject(self, sourceObject, sourceObjectTypeInfo, memberOptions) ==
    LET declared == sourceObjectTypeInfo.selfConstructor
        notObject == CallErrorHandler(self, Err("NotAnObject"), <<>>)
        first == declaredKnownTypes(self, sourceObjectTypeInfo)
        typeFromTypeHint == CallTypeResolver(self, sourceObject, first.val)
        expectedSelfType == resolveExpectedType(declared, typeFromTypeHint)
        hasMeta  == HasMetadata(expectedSelfType)
        sourceObjectMetadata == getFromConstructor(expectedSelfType)
        knownTypeConstructors ==
            IF expectedSelfType # declared /\ hasMeta
            THEN mergeWithDeclared(self, first.val, sourceObjectMetadata, <<>>)
            ELSE first
        classOptions == mergeOptions(self.options, sourceObjectMetadata.options)
        members == sourceObjectMetadata.dataMembers
        revived ==
            [i \in 1..Len(members) |->
                LET memberMetadata == members[i]
                    memberValue == ReadProp(sourceObject, memberMetadata.name)
                IN  IF memberMetadata.deserializer # "undefined"
                    THEN Ret(CallDeserializer(memberMetadata.deserializer, memberValue),
                             << Called("deserializer", memberMetadata.name, << memberValue >>) >>)
                    ELSE IF memberMetadata.ctor # "undefined"
                    THEN convertSingleValue(self, memberValue,
                            TypeInfo(memberMetadata.ctor, memberMetadata.elementType # <<>>,
                                     memberMetadata.elementType, memberMetadata.keyType,
                                     knownTypeConstructors.val),
                            mergeOptions(classOptions, memberMetadata.options))
                    ELSE Throw(Err("MissingConverter"), <<>>)]
        props == OwnProps(sourceObject)
        converted ==
            [i \in 1..Len(props) |->
                IF ~isValueDefined(props[i].v) THEN Throw(Err("NativeTypeError"), <<>>)
                ELSE convertSingleValue(self, props[i].v,
                        TypeInfo(ConstructorOf(props[i].v),
                                 sourceObjectTypeInfo.hasElementConstructor,
                                 sourceObjectTypeInfo.elementConstructor,
                                 sourceObjectTypeInfo.keyConstructor,
                                 sourceObjectTypeInfo.knownTypes),
                        NoOptions)]
    IN  IF TypeOf(sourceObject) # "object" \/ sourceObject.t = "null"
        THEN IF notObject.thrown THEN notObject ELSE Ret(Undefined, notObject.log)
        ELSE IF first.thrown THEN first
        ELSE IF knownTypeConstructors.thrown THEN knownTypeConstructors
        ELSE IF hasMeta /\ sourceObjectMetadata.isExplicitlyMarked
        THEN Let(convertMembers(self, sourceObjectMetadata, members, Computed(revived),
                                <<>>, <<>>),
                 LAMBDA staged :
                    IF staged.thrown THEN staged
                    ELSE instantiate(self, sourceObjectMetadata, expectedSelfType,
                                     sourceObject, staged.val, staged.log))
        ELSE Let(Computed(converted), LAMBDA c : convertOwnKeys(props, c, <<>>, <<>>))

\* ------------------------------------------------------------------ inputs
\* A property a source object does not have.
Absent == [t |-> "absent"]

\* The object with the listed properties, without the absent ones.
MkObj(props) == Obj(SelectSeq(props, LAMBDA q : q.v # Absent))

Scalars == {Undefined, Null, Num(0), Num(1), Str("a"), Str("7"), Bool(TRUE)}

IdObject(i) == MkObj(<< Prop("id", i) >>)

\* A {key, value} pair, the wire shape of a Map entry.
Pair(k, v) == MkObj(<< Prop("key", k), Prop("value", v) >>)

\* Elements of the sequences handed to the container conversions.
Elements ==
    {Null, Num(1), Str("a"), Arr(<< Num(1), Pair(Str("a"), Num(1)) >>), IdObject(Num(1))}

SeqsUpTo(S, n) == UNION {[1..m -> S] : m \in 0..n}

Sequences == {Arr(e) : e \in SeqsUpTo(Elements, MaxLen)}

\* The pairs of the sequences handed to convertAsMap.
Pairs ==
    { Pair(Str("a"), Num(1)), Pair(Str("a"), Str("x")), Pair(Null, Num(1)),
      Pair(Num(1), Num(1)), Pair(Str("b"), Arr(<< Pair(Str("a"), Num(1)) >>)) }

PairSequences == {Arr(e) : e \in SeqsUpTo(Pairs, MaxLen)}

IdObjects == {IdObject(i) : i \in {Absent, Null, Num(1), Str("a")}}

TypeHints == {Str("Student"), Str("Droid"), Str("ns.Robot"), Str("ns.Student")}

PersonObject(n, a, k, h) ==
    MkObj(<< Prop("name", n), Prop("age", a), Prop("nick", k), Prop("__type", h),
             Prop("school", IF h = Absent THEN Absent ELSE Str("s")),
             Prop("model", IF h = Absent THEN Absent ELSE Str("m")) >>)

PersonObjects ==
    {PersonObject(n, a, k, Absent) :
        n \in {Absent, Null, Str("a"), Num(1)}, a \in {Absent, Num(1)},
        k \in {Absent, Null, Str("n")}}
    \cup {PersonObject(n, Num(1), Str("n"), h) : n \in {Absent, Str("a")}, h \in TypeHints}

PetObjects ==
    {MkObj(<< Prop("name", n), Prop("kind", k), Prop("motto", m), Prop("raw", r) >>) :
        n \in {Absent, Null, Str("a")}, k \in {Null, Str("a")},
        m \in {Absent, Str("m"), Num(1)}, r \in {Absent, Null, Num(1)}}

TeamObjects ==
    {MkObj(<< Prop("lead", l), Prop("scores", s), Prop("size", z) >>) :
        l \in {Absent, Num(1), PersonObject(Str("a"), Absent, Str("n"), Absent),
               PersonObject(Num(1), Absent, Absent, Absent)},
        s \in {Absent, Num(1), Arr(<< Num(1), Str("a") >>)},
        z \in {Absent, Num(1), Str("a")}}

HolderObjects ==
    {MkObj(<< Prop("bad", b), Prop("none", o), Prop("good", g), Prop("n", n) >>) :
        b \in {Absent, IdObject(Num(1))},
        o \in {Absent, IdObject(Num(1))},
        g \in {Absent, IdObject(Num(1))},
        n \in {Absent, Num(1), Str("a")}}

BrokenObjects ==
    {MkObj(<< Prop("first", f), Prop("bad", b), Prop("last", l) >>) :
        f \in {Absent, Num(1)}, b \in {Absent, Num(1)}, l \in {Absent, Num(1)}}

NotObjects == {Undefined, Null, Num(1), Str("a")}

\* The source objects convertAsObject is tried on for an expected type.
ObjectsFor(ctor) ==
    CASE ctor \in {"Person", "Student"} -> PersonObjects
      [] ctor = "Pet"    -> PetObjects
      [] ctor = "Team"   -> TeamObjects
      [] ctor = "Holder" -> HolderObjects
      [] ctor = "Broken" -> BrokenObjects
      [] ctor \in {"Object", "Bare", "Implicit"} ->
            IdObjects \cup NotObjects
            \cup {Arr(<< Num(1), Null >>), Arr(<< Num(1) >>),
                  MkObj(<< Prop("id", Num(1)), Prop("__type", Str("Droid")) >>),
                  MkObj(<< Prop("list", Arr(<< Num(1) >>)), Prop("in", IdObject(Num(1))) >>)}
      [] OTHER -> IdObjects \cup {Null, Num(1)}

ObjectTypes ==
    {c.classType : c \in RegisteredClasses} \cup UnregisteredClasses \cup {"Object"}

\* The known types handed down to convertAsObject for an expected type.
KnownTypeMapsFor(ctor) ==
    IF ctor \in {"Person", "Object"} THEN { {}, {<<"Droid", "Robot">>} } ELSE { {} }

\* Element-type lists of the descriptors handed to the container conversions.
ElementLists ==
    { <<>>, << "Number" >>, << "String" >>, << "Array", "Number" >>, << "InitUnrelated" >>,
      << "Map", "Number" >> }

\* Key types and element-type lists of the descriptors handed to convertAsMap.
MapDescriptors ==
    { <<"String", << "Number" >> >>, <<"undefined", << "Number" >> >>,
      <<"String", <<>> >>, <<"String", << "Array", "Number" >> >>,
      <<"undefined", <<>> >>, <<"String", << "Map", "Number" >> >> }

SingleValueTypes ==
    {"Number", "String", "Boolean", "Date", "Array", "Set", "Map", "Object", "Robot",
     "Float32Array", "Uint8Array", "Uint8ClampedArray", "ArrayBuffer", "DataView"}

SingleValues ==
    Scalars \cup {Num(-1), Str("2020-01-01T00:00:00Z"), Arr(<< Num(1), Str("a") >>),
                  Arr(<< Num(300), Str("7") >>), MkObj(<< Prop("model", Str("m")) >>)}

\* The values handed to the policy setters.
Callbacks == {"undefined", "notCallable", "default", "alwaysRobot", "qualified", "rethrow", "logError"}
IsFunction(cb) == cb \notin {"undefined", "notCallable"}

\* ----------------------------------------------------------- state machine
Self ==
    [typeResolver |-> typeResolver, nameResolver |-> nameResolver,
     errorHandler |-> errorHandler, options |-> options]

NoTypeInfo == TypeInfo("undefined", FALSE, <<>>, "undefined", {})

Call(op, sourceObject, typeInfo, memberOptions) ==
    [op |-> op, sourceObject |-> sourceObject, typeInfo |-> typeInfo,
     memberOptions |-> memberOptions]

\* No call has been made, or the caller is done with the last one.
Idle == Call("none", Undefined, NoTypeInfo, NoOptions)

\* new Deserializer()
Init ==
    /\ registry = RegisteredClasses
    /\ typeResolver = "default"
    /\ nameResolver = "undefined"
    /\ errorHandler = "logError"
    /\ options = NoOptions
    /\ call = Idle
    /\ before = [typeResolver |-> "default", nameResolver |-> "undefined",
                 errorHandler |-> "logError", options |-> NoOptions]
    /\ outcome = Ret(Undefined, <<>>)

\* deserializer.options = o
SetOptions ==
    \E o \in {NoOptions, Opt("true"), Opt("false")} :
        /\ call = Idle
        /\ options' = o
        /\ call' = Call("options", Undefined, NoTypeInfo, o)
        /\ before' = Self
        /\ outcome' = Ret(Undefined, <<>>)
        /\ UNCHANGED <<registry, typeResolver, nameResolver, errorHandler>>

setNameResolver(nameResolverCallback) ==
    /\ call = Idle
    /\ nameResolver' = nameResolverCallback
    /\ call' = Call("setNameResolver", Str(nameResolverCallback), NoTypeInfo, NoOptions)
    /\ before' = Self
    /\ outcome' = Ret(Undefined, <<>>)
    /\ UNCHANGED <<registry, typeResolver, errorHandler, options>>

setTypeResolver(typeResolverCallback) ==
    /\ call = Idle
    /\ call' = Call("setTypeResolver", Str(typeResolverCallback), NoTypeInfo, NoOptions)
    /\ before' = Self
    /\ IF ~IsFunction(typeResolverCallback)
       THEN /\ outcome' = Throw(Err("InvalidCallback"), <<>>)
            /\ UNCHANGED typeResolver
       ELSE /\ typeResolver' = typeResolverCallback
            /\ outcome' = Ret(Undefined, <<>>)
    /\ UNCHANGED <<registry, nameResolver, errorHandler, options>>

setErrorHandler(errorHandlerCallback) ==
    /\ call = Idle
    /\ call' = Call("setErrorHandler", Str(errorHandlerCallback), NoTypeInfo, NoOptions)
    /\ before' = Self
    /\ IF ~IsFunction(errorHandlerCallback)
       THEN /\ outcome' = Throw(Err("InvalidCallback"), <<>>)
            /\ UNCHANGED errorHandler
       ELSE /\ errorHandler' = errorHandlerCallback
            /\ outcome' = Ret(Undefined, <<>>)
    /\ UNCHANGED <<registry, typeResolver, nameResolver, options>>

SetNameResolver == \E cb \in {"undefined", "notCallable", "qualified"} : setNameResolver(cb)
SetTypeResolver == \E cb \in {"undefined", "notCallable", "default", "alwaysRobot"} : setTypeResolver(cb)
SetErrorHandler == \E cb \in {"undefined", "notCallable", "logError", "rethrow"} : setErrorHandler(cb)

\* A conversion call leaves the engine as it is.
Converted(op, sourceObject, typeInfo, memberOptions, result) ==
    /\ call = Idle
    /\ call' = Call(op, sourceObject, typeInfo, memberOptions)
    /\ before' = Self
    /\ outcome' = result
    /\ UNCHANGED <<registry, typeResolver, nameResolver, errorHandler, options>>

ConvertSingleValue ==
    \E v \in SingleValues, c \in SingleValueTypes, o \in {NoOptions, Opt("true"), Opt("false")} :
        /\ o = NoOptions \/ v = Null
        /\ LET ti == TypeInfo(c, TRUE, << "Number" >>, "String", {})
           IN  Converted("convertSingleValue", v, ti, o, convertSingleValue(Self, v, ti, o))

ConvertAsObject ==
    \E c \in ObjectTypes :
        \E v \in ObjectsFor(c), k \in KnownTypeMapsFor(c) :
            LET ti == TypeInfo(c, FALSE, <<>>, "undefined", k)
            IN  Converted("convertAsObject", v, ti, NoOptions,
                          convertAsObject(Self, v, ti, NoOptions))

ConvertAsArray ==
    \E v \in Sequences \cup NotObjects, el \in ElementLists, has \in BOOLEAN :
        /\ has \/ el = <<>>
        /\ LET ti == TypeInfo("Array", has, el, "undefined", {})
           IN  Converted("convertAsArray", v, ti, NoOptions,
                         convertAsArray(Self, v, ti, NoOptions))

ConvertAsSet ==
    \E v \in Sequences \cup NotObjects, el \in ElementLists, has \in BOOLEAN :
        /\ has \/ el = <<>>
        /\ LET ti == TypeInfo("Set", has, el, "undefined", {})
           IN  Converted("convertAsSet", v, ti, NoOptions,
                         convertAsSet(Self, v, ti, NoOptions))

ConvertAsMap ==
    \E v \in PairSequences \cup NotObjects, d \in MapDescriptors :
        LET ti == TypeInfo("Map", TRUE, d[2], d[1], {})
        IN  Converted("convertAsMap", v, ti, NoOptions, convertAsMap(Self, v, ti, NoOptions))

\* The caller takes the outcome of the call and goes on.
Resume ==
    /\ call # Idle
    /\ call' = Idle
    /\ before' = Self
    /\ outcome' = Ret(Undefined, <<>>)
    /\ UNCHANGED <<registry, typeResolver, nameResolver, errorHandler, options>>

Next ==
    \/ Resume
    \/ SetOptions
    \/ SetNameResolver
    \/ SetTypeResolver
    \/ SetErrorHandler
    \/ ConvertSingleValue
    \/ ConvertAsObject
    \/ ConvertAsArray
    \/ ConvertAsSet
    \/ ConvertAsMap

Spec == Init /\ [][Next]_vars

\* -------------------------------------------------------------- properties
\* The properties are stated on the state a call leaves: call is the call
\* made, before the engine it was made on, outcome what it produced.

\* The error handler installed when the call was made returns.
HandlerReturns == before.errorHandler # "rethrow"

\* How many times the handler was given an error of the message.
Reported(log, message) ==
    Cardinality({i \in 1..Len(log) : log[i] = Ev("error", message)})

ErrorEvents(log) == {i \in 1..Len(log) : log[i].ev = "error"}

RECURSIVE Concat(_)
Concat(ss) == IF ss = <<>> THEN <<>> ELSE Head(ss) \o Concat(Tail(ss))

\* The events of one loop step whose conversion had outcome r: the events
\* of the conversion itself, then one report to the handler if it raised.
Caught(r) == IF r.thrown THEN r.log \o << Ev("error", Message(r.val)) >> ELSE r.log

\* The call converted an Array under a descriptor with element types, on
\* an engine whose error handler returns.
SequenceCase(op) ==
    /\ call.op = op
    /\ IsArray(call.sourceObject)
    /\ call.typeInfo.hasElementConstructor
    /\ call.typeInfo.elementConstructor # <<>>
    /\ HandlerReturns

\* The outcome of converting each element of the call's source on its own.
ElementOutcomes ==
    Computed([i \in 1..Len(call.sourceObject.e) |->
        convertSingleValue(before, call.sourceObject.e[i],
                           elementTypeInfo(call.typeInfo), call.memberOptions)])

\* C1: convertAsArray on an Array with element types returns an Array of the
\* same length whose slot i is the conversion of element i, or undefined
\* when that conversion raised; the events of the call are, element by
\* element, those of the element's own conversion followed by exactly one
\* report to the error handler when it raised and by none when it did not.
C1_ConvertAsArray ==
    SequenceCase("convertAsArray") =>
        LET r == ElementOutcomes
        IN  /\ ~outcome.thrown
            /\ IsArray(outcome.val)
            /\ Len(outcome.val.e) = Len(call.sourceObject.e)
            /\ \A i \in 1..Len(r) :
                    outcome.val.e[i] = IF r[i].thrown THEN Undefined ELSE r[i].val
            /\ outcome.log = Concat([i \in 1..Len(r) |-> Caught(r[i])])

C1_Witness ==
    /\ SequenceCase("convertAsArray")
    /\ call.sourceObject = Arr(<< Num(1), Str("a") >>)
    /\ call.typeInfo.elementConstructor = << "Number" >>
    /\ outcome.val = Arr(<< Num(1), Undefined >>)
    /\ Cardinality(ErrorEvents(outcome.log)) = 1

\* C2: convertAsSet on an Array with element types returns a Set holding
\* exactly the converted values of the elements whose conversion did not
\* raise (a primitive value once); an element whose conversion raised is
\* reported once and adds nothing, and the elements after it are converted.
C2_ConvertAsSet ==
    SequenceCase("convertAsSet") =>
        LET r == ElementOutcomes
            m == outcome.val.e
        IN  /\ ~outcome.thrown
            /\ outcome.val.t = "Set"
            /\ {m[j] : j \in 1..Len(m)} = {r[i].val : i \in {k \in 1..Len(r) : ~r[k].thrown}}
            /\ \A j, k \in 1..Len(m) : (j # k /\ m[j] = m[k]) => ~IsPrimitive(m[j])
            /\ Len(m) <= Cardinality({k \in 1..Len(r) : ~r[k].thrown})
            /\ outcome.log = Concat([i \in 1..Len(r) |-> Caught(r[i])])

C2_Witness ==
    /\ SequenceCase("convertAsSet")
    /\ call.sourceObject = Arr(<< Num(1), Str("a") >>)
    /\ call.typeInfo.elementConstructor = << "String" >>
    /\ outcome.val = SetOf(<< Str("a") >>)
    /\ Cardinality(ErrorEvents(outcome.log)) = 1

\* The call converted an Array of pairs under a descriptor with a key type
\* and element types, on an engine whose error handler returns.
MapCase ==
    /\ SequenceCase("convertAsMap")
    /\ call.typeInfo.keyConstructor # "undefined"

KeyOutcomes ==
    Computed([i \in 1..Len(call.sourceObject.e) |->
        convertSingleValue(before, ReadProp(call.sourceObject.e[i], "key"),
                           keyTypeInfo(call.typeInfo), call.memberOptions)])

ValueOutcomes ==
    Computed([i \in 1..Len(call.sourceObject.e) |->
        convertSingleValue(before, ReadProp(call.sourceObject.e[i], "value"),
                           elementTypeInfo(call.typeInfo), call.memberOptions)])

\* C3: convertAsMap returns a Map with an entry for exactly the pairs whose
\* key converts without raising to a defined value and whose value converts
\* without raising (a later such pair with the same key replaces the value);
\* a pair whose key converts to undefined or null is skipped without a call
\* of the error handler and without converting its value; a pair whose key
\* or value conversion raises is reported once and leaves no entry.
C3_ConvertAsMap ==
    MapCase =>
        LET k == KeyOutcomes
            v == ValueOutcomes
            n == Len(call.sourceObject.e)
            entered == {i \in 1..n : ~k[i].thrown /\ isValueDefined(k[i].val) /\ ~v[i].thrown}
            pairLog(i) == IF k[i].thrown THEN Caught(k[i])
                          ELSE IF ~isValueDefined(k[i].val) THEN k[i].log
                          ELSE k[i].log \o Caught(v[i])
            m == outcome.val.p
        IN  /\ ~outcome.thrown
            /\ outcome.val.t = "Map"
            /\ {m[j].k : j \in 1..Len(m)} = {k[i].val : i \in entered}
            /\ \A j, l \in 1..Len(m) : j # l => m[j].k # m[l].k
            /\ \A j \in 1..Len(m) :
                    \E i \in entered :
                        /\ k[i].val = m[j].k
                        /\ v[i].val = m[j].v
                        /\ \A l \in entered : k[l].val = m[j].k => l <= i
            /\ outcome.log = Concat([i \in 1..n |-> pairLog(i)])

C3_Witness ==
    /\ MapCase
    /\ call.sourceObject = Arr(<< Pair(Str("a"), Num(1)), Pair(Null, Num(1)) >>)
    /\ call.typeInfo.elementConstructor = << "Number" >>
    /\ outcome = Ret(MapOf(<< Prop(Str("a"), Num(1)) >>), <<>>)

\* The call converted a source of typeof "object" and its known types were
\* merged without raising.
HintCase ==
    /\ call.op = "convertAsObject"
    /\ call.sourceObject.t \in {"object", "array"}
    /\ ~declaredKnownTypes(before, call.typeInfo).thrown

\* The constructor the type resolver answered for the call's source object.
HintedType ==
    CallTypeResolver(before, call.sourceObject,
                     declaredKnownTypes(before, call.typeInfo).val)

\* The classes A extends, directly or not; every class extends Object.
RECURSIVE Ancestors(_)
Ancestors(A) ==
    LET up == {c.parent : c \in {d \in registry : d.classType = A}} \ {""}
    IN  {"Object"} \cup up \cup UNION {Ancestors(P) : P \in up}

IsOrExtends(A, B) == A = B \/ B \in Ancestors(A)

\* The class the source object of the call is to be converted as.
ConvertedAs ==
    IF HintedType # "undefined" /\ IsOrExtends(HintedType, call.typeInfo.selfConstructor)
    THEN HintedType
    ELSE call.typeInfo.selfConstructor

\* The call converted a source object as an explicitly registered class and
\* returned.
ExplicitCase ==
    /\ HintCase
    /\ ~outcome.thrown
    /\ HasMetadata(ConvertedAs)
    /\ getFromConstructor(ConvertedAs).isExplicitlyMarked

\* preserveNull as the most specific of the option levels, least specific
\* first, that sets it; false when none does.
RECURSIVE MostSpecific(_)
MostSpecific(levels) ==
    IF levels = <<>> THEN FALSE
    ELSE LET o == levels[Len(levels)]
         IN  IF o # NoOptions /\ o.preserveNull # "unset"
             THEN o.preserveNull = "true"
             ELSE MostSpecific(SubSeq(levels, 1, Len(levels) - 1))

\* The member is revived by convertSingleValue on its declared constructor.
ViaConstructor(m) == m.deserializer = "undefined" /\ m.ctor # "undefined"

SourceOf(m) == ReadProp(call.sourceObject, m.name)

\* The source value of the member is undefined, or null without preserveNull.
SourceAbsent(meta, m) ==
    \/ SourceOf(m).t = "undefined"
    \/ /\ SourceOf(m).t = "null"
       /\ ~MostSpecific(<< before.options, meta.options, m.options >>)

\* The runtime type of a raw value, as the wrapper's name.
RuntimeType(v) ==
    CASE v.t = "number"  -> "Number"
      [] v.t = "string"  -> "String"
      [] v.t = "boolean" -> "Boolean"
      [] OTHER           -> "none"

Primitives == {"Number", "String", "Boolean"}

MissingMessage(cls, m) == "MissingRequiredMember " \o cls \o "." \o m.name

\* The key is on the result only if the class's constructor put it there.
NotStaged(meta, m) ==
    outcome.val.t = "instance" =>
        (HasProp(outcome.val.p, m.key) =>
            /\ HasProp(meta.ctorSets, m.key)
            /\ GetProp(outcome.val.p, m.key) = GetProp(meta.ctorSets, m.key))

\* The source value of the member is defined and is not of the member's
\* declared type: not of the primitive type, or not an Array where the type
\* is a container.
Mismatch(m) ==
    /\ ViaConstructor(m)
    /\ isValueDefined(SourceOf(m))
    /\ \/ m.ctor \in Primitives /\ RuntimeType(SourceOf(m)) # m.ctor
       \/ m.ctor \in {"Array", "Set", "Map"} /\ ~IsArray(SourceOf(m))

\* The call converted a source object as an explicitly registered class all
\* of whose members have a converter, on an engine whose error handler
\* returns and whose name resolver, if any, is a function.
ExplicitClassCase ==
    /\ HintCase
    /\ HandlerReturns
    /\ before.nameResolver # "notCallable"
    /\ HasMetadata(ConvertedAs)
    /\ getFromConstructor(ConvertedAs).isExplicitlyMarked
    /\ LET members == getFromConstructor(ConvertedAs).dataMembers
       IN  \A i \in 1..Len(members) :
              members[i].deserializer # "undefined" \/ members[i].ctor # "undefined"

\* The members with a matching primitive source value are on the result.
SiblingsConverted(members) ==
    \A j \in 1..Len(members) :
        ( /\ ViaConstructor(members[j])
          /\ members[j].ctor \in Primitives
          /\ RuntimeType(SourceOf(members[j])) = members[j].ctor )
        => GetProp(outcome.val.p, members[j].key) = SourceOf(members[j])

\* C4, for the members revived through their declared constructor: a
\* required member whose source value is undefined, or null without
\* preserveNull, is reported to the error handler exactly once as missing,
\* and a member that is not required never; its key is not staged; the
\* call returns, with the other members converted, the object of the class
\* (when the class has no initializer).
C4_RequiredMember ==
    ExplicitClassCase =>
        LET meta == getFromConstructor(ConvertedAs)
            members == meta.dataMembers
        IN  \A i \in 1..Len(members) :
                (ViaConstructor(members[i]) /\ SourceAbsent(meta, members[i])) =>
                    /\ Reported(outcome.log, MissingMessage(ConvertedAs, members[i]))
                          = IF members[i].isRequired THEN 1 ELSE 0
                    /\ ~outcome.thrown
                    /\ NotStaged(meta, members[i])
                    /\ outcome.val.t = "instance" => SiblingsConverted(members)
                    /\ meta.initializerCallback = "undefined" =>
                          (outcome.val.t = "instance" /\ outcome.val.cls = ConvertedAs)

\* A required member is absent and an earlier member has a value of the
\* wrong type: the call raises, the handler is never called, no object.
C4_Witness ==
    /\ ExplicitClassCase
    /\ ConvertedAs = "Person"
    /\ ReadProp(call.sourceObject, "name") = Num(1)
    /\ SourceOf(PersonMembers[3]).t = "undefined"
    /\ outcome = Throw(Err("TypeMismatch"), <<>>)

\* C5: convertSingleValue of null returns null when preserveNull, taken
\* from the most specific of the instance and member options that sets it
\* (default false), is true and undefined when it is false, for every
\* expected type and with no error raised or reported; convertAsObject
\* stages the null of a member (instance, class and member options) only
\* when preserveNull is true for it, and then reports nothing for it.
C5_PreserveNull ==
    /\ (call.op = "convertSingleValue" /\ call.sourceObject = Null) =>
            outcome = Ret(IF MostSpecific(<< before.options, call.memberOptions >>)
                          THEN Null ELSE Undefined, <<>>)
    /\ (ExplicitCase /\ outcome.val.t = "instance") =>
            LET meta == getFromConstructor(ConvertedAs)
                members == meta.dataMembers
            IN  \A i \in 1..Len(members) :
                    (ViaConstructor(members[i]) /\ SourceOf(members[i]) = Null) =>
                        IF MostSpecific(<< before.options, meta.options, members[i].options >>)
                        THEN /\ GetProp(outcome.val.p, members[i].key) = Null
                             /\ Reported(outcome.log, MissingMessage(ConvertedAs, members[i])) = 0
                        ELSE NotStaged(meta, members[i])

C5_Witness ==
    /\ ExplicitCase
    /\ ConvertedAs = "Pet"
    /\ before.options = Opt("false")
    /\ ReadProp(call.sourceObject, "name") = Null
    /\ ReadProp(call.sourceObject, "kind") = Null
    /\ outcome.val.t = "instance"
    /\ GetProp(outcome.val.p, "name") = Null
    /\ ~HasProp(outcome.val.p, "kind")

\* C6: convertAsObject converts its source as the constructor the type
\* resolver answers exactly when that constructor is the expected type or
\* extends it, and as the expected type otherwise: the object returned is
\* of that class and carries that class's members.  When the __type of the
\* source names a known type that does not extend the expected type, an
\* explicitly registered class, the call ends exactly as it does for the
\* same source without __type: as the expected type, nothing more reported.
C6_TypeHint ==
    HintCase =>
        /\ (~outcome.thrown /\ outcome.val.t = "instance") =>
                /\ HasMetadata(ConvertedAs)
                /\ getFromConstructor(ConvertedAs).initializerCallback = "undefined" =>
                      LET meta == getFromConstructor(ConvertedAs)
                          members == meta.dataMembers
                          result == outcome.val.p
                      IN  /\ outcome.val.cls = ConvertedAs
                          /\ \A q \in 1..Len(result) :
                                \/ \E i \in 1..Len(members) : members[i].key = result[q].k
                                \/ HasProp(meta.ctorSets, result[q].k)
                          /\ \A i \in 1..Len(members) :
                                ( /\ ViaConstructor(members[i])
                                  /\ members[i].ctor \in Primitives
                                  /\ RuntimeType(SourceOf(members[i])) = members[i].ctor )
                                => GetProp(result, members[i].key) = SourceOf(members[i])
        /\ ( /\ before.typeResolver = "default"
             /\ call.sourceObject.t = "object"
             /\ HintedType # "undefined"
             /\ ~IsOrExtends(HintedType, call.typeInfo.selfConstructor)
             /\ HasMetadata(call.typeInfo.selfConstructor)
             /\ getFromConstructor(call.typeInfo.selfConstructor).isExplicitlyMarked ) =>
                outcome = convertAsObject(before,
                            Obj(SelectSeq(call.sourceObject.p, LAMBDA q : q.k # "__type")),
                            call.typeInfo, call.memberOptions)

C6_Witness ==
    /\ HintCase
    /\ before.typeResolver = "default"
    /\ call.typeInfo.selfConstructor = "Person"
    /\ ReadProp(call.sourceObject, "__type") = Str("Droid")
    /\ HintedType = "Robot"
    /\ outcome.val.t = "instance"
    /\ outcome.val.cls = "Person"
    /\ ErrorEvents(outcome.log) = {}

\* The classes whose initializer answers an instance of an unrelated class,
\* null or undefined.
BadInitializers ==
    {c.classType : c \in {d \in registry :
        d.initializerCallback \in {"unrelated", "null", "undefined value"}}}

BadInitializerCalls ==
    {i \in 1..Len(outcome.log) :
        outcome.log[i].ev = "initializer" /\ outcome.log[i].arg \in BadInitializers}

\* C7: on an engine whose error handler returns, every call of an
\* initializer that answers an instance of an unrelated class, null or
\* undefined is followed by exactly one report of an invalid initializer
\* result and that error is never raised out of the call.  convertAsObject
\* on such a class then returns undefined.  As a member of an enclosing
\* object the enclosing loop goes on after the report and the enclosing
\* call returns the object without that member (it raises only for a
\* member whose source value is of the wrong type); as an element of an
\* Array, convertAsArray returns the Array with undefined in its slot.
C7_InitializerResult ==
    (HandlerReturns /\ BadInitializerCalls # {}) =>
        /\ outcome.thrown => outcome.val.kind # "InvalidInitializerResult"
        /\ \A i \in BadInitializerCalls :
                /\ i < Len(outcome.log)
                /\ outcome.log[i + 1] = Ev("error", "InvalidInitializerResult")
        /\ Reported(outcome.log, "InvalidInitializerResult") = Cardinality(BadInitializerCalls)
        /\ (call.op = "convertAsObject" /\ call.typeInfo.selfConstructor \in BadInitializers) =>
                /\ ~outcome.thrown
                /\ outcome.val = Undefined
                /\ outcome.log[Len(outcome.log)] = Ev("error", "InvalidInitializerResult")
        /\ (call.op = "convertAsObject" /\ call.typeInfo.selfConstructor = "Holder") =>
                LET members == getFromConstructor("Holder").dataMembers
                IN  /\ outcome.log[Len(outcome.log)] # Ev("error", "InvalidInitializerResult")
                    /\ outcome.thrown <=> \E i \in 1..Len(members) : Mismatch(members[i])
                    /\ ~outcome.thrown =>
                          /\ outcome.val.t = "instance"
                          /\ outcome.val.cls = "Holder"
                          /\ \A i \in 1..Len(members) :
                                members[i].ctor \in BadInitializers =>
                                    ~HasProp(outcome.val.p, members[i].key)
        /\ call.op = "convertAsArray" =>
                /\ ~outcome.thrown
                /\ IsArray(outcome.val)
                /\ Len(outcome.val.e) = Len(call.sourceObject.e)
                /\ \A i \in 1..Len(outcome.val.e) :
                      call.sourceObject.e[i].t \in {"object", "array"} =>
                          outcome.val.e[i] = Undefined

C7_Witness ==
    /\ HandlerReturns
    /\ call.op = "convertAsObject"
    /\ call.typeInfo.selfConstructor = "Holder"
    /\ Cardinality(BadInitializerCalls) = 2
    /\ Reported(outcome.log, "InvalidInitializerResult") = 2
    /\ ~outcome.thrown
    /\ outcome.val.t = "instance"
    /\ HasProp(outcome.val.p, "good")
    /\ ~HasProp(outcome.val.p, "bad")

\* One of the members of the class has a source value of the wrong type.
MismatchCase ==
    /\ ExplicitClassCase
    /\ LET members == getFromConstructor(ConvertedAs).dataMembers
       IN  \E i \in 1..Len(members) : Mismatch(members[i])

\* C8: a type mismatch on one declared member is recoverable: the call does
\* not raise, the mismatch is reported to the error handler, and the object
\* of the class is returned (when the class has no initializer) with the
\* siblings converted.
C8_MismatchRecoverable ==
    MismatchCase =>
        LET meta == getFromConstructor(ConvertedAs)
        IN  /\ ~outcome.thrown
            /\ Reported(outcome.log, "TypeMismatch") >= 1
            /\ outcome.val.t = "instance" => SiblingsConverted(meta.dataMembers)
            /\ meta.initializerCallback = "undefined" =>
                  (outcome.val.t = "instance" /\ outcome.val.cls = ConvertedAs)

\* The mismatch of a member leaves convertAsObject as a raised TypeError,
\* with no call of the error handler and no object.
C8_Witness ==
    /\ MismatchCase
    /\ ConvertedAs = "Person"
    /\ ReadProp(call.sourceObject, "name") = Num(1)
    /\ ReadProp(call.sourceObject, "nick") = Str("n")
    /\ outcome = Throw(Err("TypeMismatch"), <<>>)

Setters == {"setTypeResolver", "setNameResolver", "setErrorHandler"}

\* The policy a setter is about, on an engine.
PolicyOf(op, engine) ==
    CASE op = "setTypeResolver" -> engine.typeResolver
      [] op = "setNameResolver" -> engine.nameResolver
      [] op = "setErrorHandler" -> engine.errorHandler

\* C9: each of the three setters, given a value that is not a function,
\* raises InvalidCallback and leaves the engine as it was; given a function
\* it installs it and returns.
C9_SettersValidate ==
    call.op \in Setters =>
        IF IsFunction(call.sourceObject.s)
        THEN /\ ~outcome.thrown
             /\ PolicyOf(call.op, Self) = call.sourceObject.s
        ELSE /\ outcome = Throw(Err("InvalidCallback"), <<>>)
             /\ Self = before

\* setNameResolver installs a value that is not a function and returns.
C9_Witness ==
    /\ call.op = "setNameResolver"
    /\ call.sourceObject = Str("notCallable")
    /\ ~outcome.thrown
    /\ before.nameResolver = "qualified"
    /\ nameResolver = "notCallable"

\* C10: convertSingleValue of a defined raw value against Number, String or
\* Boolean returns the raw value itself when its runtime type is the
\* expected one, and raises a type mismatch otherwise, reporting nothing.
C10_Primitive ==
    ( /\ call.op = "convertSingleValue"
      /\ call.typeInfo.selfConstructor \in Primitives
      /\ call.sourceObject.t \notin {"undefined", "null"} ) =>
        IF RuntimeType(call.sourceObject) = call.typeInfo.selfConstructor
        THEN outcome = Ret(call.sourceObject, <<>>)
        ELSE outcome = Throw(Err("TypeMismatch"), <<>>)

C10_Witness ==
    /\ call.op = "convertSingleValue"
    /\ call.typeInfo.selfConstructor = "Number"
    /\ call.sourceObject = Str("7")
    /\ outcome = Throw(Err("TypeMismatch"), <<>>)

\* The strings of the model that are well-formed ISO-8601 date-times.
ISO8601Strings == {"2020-01-01T00:00:00Z"}

\* The call converted a defined raw value against Date.
DateCase ==
    /\ call.op = "convertSingleValue"
    /\ call.typeInfo.selfConstructor = "Date"
    /\ call.sourceObject.t \notin {"undefined", "null"}

\* C11: convertSingleValue against Date returns a Date exactly when the raw
\* value is a well-formed ISO-8601 string or a positive number; every other
\* defined raw value (another string, zero, a negative number, a boolean,
\* an Array, an object) raises a type mismatch and yields no Date.
C11_DateConversion ==
    DateCase =>
        IF \/ call.sourceObject.t = "string" /\ call.sourceObject.s \in ISO8601Strings
           \/ call.sourceObject.t = "number" /\ call.sourceObject.n > 0
        THEN /\ ~outcome.thrown
             /\ outcome.val.t = "Date"
             /\ outcome.val.src = call.sourceObject
        ELSE outcome = Throw(Err("TypeMismatch"), <<>>)

\* A string that is no date-time is handed to new Date and the Date built
\* from it is returned; nothing is raised.
C11_Witness ==
    /\ DateCase
    /\ call.sourceObject = Str("a")
    /\ outcome = Ret(DateOf(Str("a")), <<>>)

\* The class converted as has an initializer, which the call invoked, on an
\* engine whose error handler returns.
InitializerCase ==
    /\ HintCase
    /\ HandlerReturns
    /\ HasMetadata(ConvertedAs)
    /\ getFromConstructor(ConvertedAs).initializerCallback # "undefined"
    /\ \E i \in 1..Len(outcome.log) :
            outcome.log[i].ev = "initializer" /\ outcome.log[i].arg = ConvertedAs

\* Where in the events of the call its initializer was invoked, and the
\* events that followed.
InitializerAt ==
    CHOOSE i \in 1..Len(outcome.log) :
        outcome.log[i].ev = "initializer" /\ outcome.log[i].arg = ConvertedAs

AfterInitializer == SubSeq(outcome.log, InitializerAt + 1, Len(outcome.log))

\* What the initializer of the class converted as answers.
InitializerAnswer == CallInitializer(getFromConstructor(ConvertedAs), <<>>)

WithoutConverter(meta) ==
    {i \in 1..Len(meta.dataMembers) :
        /\ meta.dataMembers[i].deserializer = "undefined"
        /\ meta.dataMembers[i].ctor = "undefined"}

\* The call converted a source object as an explicitly registered class
\* that declares a member without a converter.
MissingConverterCase ==
    /\ HintCase
    /\ before.nameResolver # "notCallable"
    /\ HasMetadata(ConvertedAs)
    /\ getFromConstructor(ConvertedAs).isExplicitlyMarked
    /\ WithoutConverter(getFromConstructor(ConvertedAs)) # {}

\* The place of a member in the declaration order of the class, by name.
MemberIndex(meta, name) ==
    CHOOSE i \in 1..Len(meta.dataMembers) : meta.dataMembers[i].name = name

\* C13: converting an object as a class with a member that has neither a
\* deserializer nor a constructor raises to the caller, whatever the source
\* holds for the member and whatever the error handler is: the error never
\* reaches the error handler, no object is returned, no member declared
\* after it is converted, and neither the initializer, the constructor nor
\* the onDeserialized hook is called.
C13_MissingConverter ==
    MissingConverterCase =>
        LET meta == getFromConstructor(ConvertedAs)
            bad == CHOOSE i \in WithoutConverter(meta) :
                        \A j \in WithoutConverter(meta) : i <= j
        IN  /\ outcome.thrown
            /\ outcome.val.t = "error"
            /\ (\A i \in 1..(bad - 1) : ~Mismatch(meta.dataMembers[i])) =>
                    outcome.val = Err("MissingConverter")
            /\ ErrorEvents(outcome.log) = {}
            /\ \A j \in 1..Len(outcome.log) :
                    /\ outcome.log[j].ev \notin {"initializer", "construct", "hook"}
                    /\ outcome.log[j].ev = "deserializer" =>
                            MemberIndex(meta, outcome.log[j].arg) < bad

C13_Witness ==
    /\ MissingConverterCase
    /\ ConvertedAs = "Broken"
    /\ before.errorHandler = "logError"
    /\ call.sourceObject =
            MkObj(<< Prop("first", Num(1)), Prop("bad", Num(1)), Prop("last", Num(1)) >>)
    /\ outcome = Throw(Err("MissingConverter"),
                       << Called("deserializer", "first", << Num(1) >>) >>)

\* The call converted a source of typeof "object" as a type without
\* explicitly registered metadata, on an engine whose error handler returns
\* and whose name resolver, if any, is a function.
UntypedCase ==
    /\ HintCase
    /\ HandlerReturns
    /\ before.nameResolver # "notCallable"
    /\ ~(HasMetadata(ConvertedAs) /\ getFromConstructor(ConvertedAs).isExplicitlyMarked)

\* The conversion of own property i of the call's source on its own, with
\* the runtime constructor of its value as expected type.
OwnKeyOutcome(i) ==
    LET v == OwnProps(call.sourceObject)[i].v
    IN  convertSingleValue(before, v,
            TypeInfo(ConstructorOf(v), call.typeInfo.hasElementConstructor,
                     call.typeInfo.elementConstructor, call.typeInfo.keyConstructor,
                     call.typeInfo.knownTypes),
            NoOptions)

\* C14: convertAsObject of a source object as a type without explicitly
\* registered metadata returns a plain object with exactly the own keys of
\* the source, each holding the conversion of the source's value against the
\* value's own runtime constructor, whatever the values are (null and
\* undefined values and nested Arrays included).
C14_UntypedPassthrough ==
    UntypedCase =>
        LET props == OwnProps(call.sourceObject)
        IN  /\ ~outcome.thrown
            /\ outcome.val.t = "object"
            /\ {outcome.val.p[j].k : j \in 1..Len(outcome.val.p)}
                    = {props[i].k : i \in 1..Len(props)}
            /\ \A i \in 1..Len(props) :
                    GetProp(outcome.val.p, props[i].k) = OwnKeyOutcome(i).val

\* A null property value: reading its constructor raises, no object.
C14_Witness ==
    /\ UntypedCase
    /\ call.typeInfo.selfConstructor = "Object"
    /\ call.sourceObject = IdObject(Null)
    /\ before.errorHandler = "logError"
    /\ outcome = Throw(Err("NativeTypeError"), <<>>)

Containers == {"convertAsArray", "convertAsSet", "convertAsMap"}

\* The empty container an operation returns.
EmptyContainer(op) ==
    CASE op = "convertAsArray" -> Arr(<<>>)
      [] op = "convertAsSet"   -> SetOf(<<>>)
      [] op = "convertAsMap"   -> MapOf(<<>>)

\* The descriptor of the call lacks what the operation needs: the element
\* types are absent or empty or, for convertAsMap, there is no key type.
NoKeyType == call.op = "convertAsMap" /\ call.typeInfo.keyConstructor = "undefined"

NoElementType ==
    ~call.typeInfo.hasElementConstructor \/ call.typeInfo.elementConstructor = <<>>

IncompleteDescriptorCase ==
    /\ call.op \in Containers
    /\ HandlerReturns
    /\ NoKeyType \/ NoElementType

DescriptorErrors(log) ==
    {i \in 1..Len(log) :
        /\ log[i].ev = "error"
        /\ log[i].arg \in {"MissingElementConstructor", "MissingKeyConstructor"}}

\* C15 as stated, for every raw value: a container operation given a
\* descriptor without element types (or, for convertAsMap, without a key
\* type) raises nothing, reports exactly one descriptor error and returns
\* an empty container of its kind.
C15_IncompleteDescriptorAnyInput ==
    IncompleteDescriptorCase =>
        /\ ~outcome.thrown
        /\ Cardinality(DescriptorErrors(outcome.log)) = 1
        /\ outcome.val = EmptyContainer(call.op)

\* C15, for a raw value that is an Array: the operation raises nothing, its
\* only event is one report of the descriptor error (the missing key type
\* when a Map descriptor lacks both), it returns an empty container of its
\* kind and converts no element.
C15_IncompleteDescriptor ==
    (IncompleteDescriptorCase /\ IsArray(call.sourceObject)) =>
        outcome = Ret(EmptyContainer(call.op),
                      << Ev("error", IF NoKeyType THEN "MissingKeyConstructor"
                                     ELSE "MissingElementConstructor") >>)

C15_Witness ==
    /\ IncompleteDescriptorCase
    /\ call.op = "convertAsMap"
    /\ NoKeyType
    /\ NoElementType
    /\ call.sourceObject = Arr(<< Pair(Str("a"), Num(1)), Pair(Str("a"), Str("x")) >>)
    /\ outcome = Ret(MapOf(<<>>), << Ev("error", "MissingKeyConstructor") >>)

\* Where in the events of the call the object of the class converted as was
\* instantiated, by its initializer or by its constructor.
Instantiations ==
    {j \in 1..Len(outcome.log) :
        /\ outcome.log[j].ev \in {"initializer", "construct"}
        /\ outcome.log[j].arg = ConvertedAs}

\* The member of the class an event of the call's own member loop is about
\* (the call of its deserializer, the report that it is missing); 0 for
\* every other event.
OwnMember(meta, e) ==
    LET members == meta.dataMembers
        byDeserializer == {i \in 1..Len(members) :
            /\ e.ev = "deserializer"
            /\ members[i].deserializer # "undefined"
            /\ members[i].name = e.arg}
        byReport == {i \in 1..Len(members) :
            e = Ev("error", MissingMessage(meta.classType, members[i]))}
    IN  IF byDeserializer \cup byReport = {} THEN 0
        ELSE CHOOSE i \in byDeserializer \cup byReport : TRUE

\* C16: convertAsObject on an explicitly registered class works in a fixed
\* order.  The type hint is resolved before any member is touched (the
\* members handled are those of the hinted class, never those of the
\* declared one).  The members are handled in declaration order, a member
\* with a deserializer by one call of the deserializer on the raw member
\* value, whether or not it also declares a constructor.  The initializer
\* (given the complete staged mapping and the raw source object) or the
\* no-argument constructor is called once, after every member.  The staged
\* values are copied onto the target afterwards, over what the constructor
\* set.  The onDeserialized hook is the last event and sees the populated
\* target.
C16_Order ==
    ExplicitClassCase =>
        LET meta == getFromConstructor(ConvertedAs)
            members == meta.dataMembers
            log == outcome.log
            declared == call.typeInfo.selfConstructor
            returned == ~outcome.thrown /\ outcome.val.t = "instance"
        IN  \* the hint first
            /\ (ConvertedAs # declared /\ HasMetadata(declared)) =>
                    \A j \in 1..Len(log) : OwnMember(getFromConstructor(declared), log[j]) = 0
            \* the members in declaration order
            /\ \A j, k \in 1..Len(log) :
                    (j < k /\ OwnMember(meta, log[j]) # 0 /\ OwnMember(meta, log[k]) # 0)
                        => OwnMember(meta, log[j]) <= OwnMember(meta, log[k])
            /\ \A i \in 1..Len(members) :
                    members[i].deserializer # "undefined" =>
                        LET calls == {j \in 1..Len(log) :
                                        log[j].ev = "deserializer" /\ log[j].arg = members[i].name}
                            d == CallDeserializer(members[i].deserializer, SourceOf(members[i]))
                        IN  /\ Cardinality(calls) <= 1
                            /\ \A j \in calls : log[j].args = << SourceOf(members[i]) >>
                            /\ returned =>
                                /\ Cardinality(calls) = 1
                                /\ isValueDefined(d) => GetProp(outcome.val.p, members[i].key) = d
            \* instantiation once, after every member
            /\ Cardinality(Instantiations) <= 1
            /\ ~outcome.thrown => Cardinality(Instantiations) = 1
            /\ \A n \in Instantiations :
                    /\ \A j \in 1..Len(log) : OwnMember(meta, log[j]) # 0 => j < n
                    /\ Len(log) <= n + 1
                    /\ IF log[n].ev = "construct"
                       THEN log[n].args = <<>>
                       ELSE /\ Len(log[n].args) = 2
                            /\ log[n].args[2] = call.sourceObject
                            /\ log[n].args[1].t = "object"
                            /\ \A i \in 1..Len(members) :
                                    ( /\ ViaConstructor(members[i])
                                      /\ members[i].ctor \in Primitives
                                      /\ RuntimeType(SourceOf(members[i])) = members[i].ctor )
                                    => GetProp(log[n].args[1].p, members[i].key)
                                            = SourceOf(members[i])
                            /\ returned => outcome.val.p = log[n].args[1].p
            \* the copy after the constructor, over what it set
            /\ (returned /\ meta.initializerCallback = "undefined") =>
                    /\ SiblingsConverted(members)
                    /\ Len(outcome.val.p) >= Len(meta.ctorSets)
                    /\ \A q \in 1..Len(meta.ctorSets) :
                            /\ outcome.val.p[q].k = meta.ctorSets[q].k
                            /\ (\A i \in 1..Len(members) :
                                    members[i].key = meta.ctorSets[q].k => SourceAbsent(meta, members[i]))
                                => outcome.val.p[q].v = meta.ctorSets[q].v
            \* the hook last, on the populated target
            /\ \A j \in 1..Len(log) :
                    (log[j].ev = "hook" /\ Instantiations # {}) =>
                        /\ j = Len(log)
                        /\ \A n \in Instantiations : n < j
                        /\ log[j].arg = "instance" => log[j].args = << outcome.val >>
            /\ (returned /\ meta.onDeserializedMethodName # "") =>
                    log[Len(log)].ev \in {"hook", "error"}

\* A constructor-set age overwritten by the staged one, after the report of
\* the missing member and the constructor call.
C16_Witness ==
    /\ ExplicitClassCase
    /\ ConvertedAs = "Person"
    /\ call.sourceObject = MkObj(<< Prop("name", Str("a")), Prop("age", Num(1)) >>)
    /\ outcome = Ret(Inst("Person", << Prop("age", Num(1)), Prop("name", Str("a")) >>),
                     << Ev("error", "MissingRequiredMember Person.nick"),
                        Ev("construct", "Person") >>)

\* The class, or a class it extends, declares the method (instance: on the
\* prototype chain of its objects; static: on the constructor's chain).
DeclaresMethod(cls, name, static) ==
    \E c \in registry :
        /\ c.classType = cls \/ c.classType \in Ancestors(cls)
        /\ name \in (IF static THEN c.staticMethods ELSE c.instanceMethods)

\* The call instantiated an object of a class that names an onDeserialized
\* hook, on an engine whose error handler returns.
HookCase ==
    /\ ExplicitClassCase
    /\ getFromConstructor(ConvertedAs).onDeserializedMethodName # ""
    /\ Instantiations # {}

\* C17: with an onDeserialized name configured, the populated target is
\* returned in every case, after exactly one call: of the instance method
\* of that name when the target has one (also when the constructor has a
\* static one of that name), otherwise of the static method of the target's
\* constructor; when neither exists nothing is called and one InvalidHook
\* error is reported.
C17_Hook ==
    HookCase =>
        LET meta == getFromConstructor(ConvertedAs)
            name == meta.onDeserializedMethodName
            log == outcome.log
            hooks == {j \in 1..Len(log) : log[j].ev = "hook"}
            last == log[Len(log)]
        IN  /\ ~outcome.thrown
            /\ outcome.val.t = "instance"
            /\ outcome.val.cls = ConvertedAs
            /\ SiblingsConverted(meta.dataMembers)
            /\ IF DeclaresMethod(outcome.val.cls, name, FALSE)
               THEN /\ hooks = {Len(log)}
                    /\ last = Called("hook", "instance", << outcome.val >>)
                    /\ Reported(log, "InvalidHook") = 0
               ELSE IF DeclaresMethod(outcome.val.cls, name, TRUE)
               THEN /\ hooks = {Len(log)}
                    /\ last = Called("hook", "static", << outcome.val.cls >>)
                    /\ Reported(log, "InvalidHook") = 0
               ELSE /\ hooks = {}
                    /\ last = Ev("error", "InvalidHook")
                    /\ Reported(log, "InvalidHook") = 1

C17_Witness ==
    /\ HookCase
    /\ ConvertedAs = "HookMissing"
    /\ outcome = Ret(Inst("HookMissing", << Prop("id", Num(1)) >>),
                     << Ev("construct", "HookMissing"), Ev("error", "InvalidHook") >>)

Conversions == Containers \cup {"convertAsObject", "convertSingleValue"}

\* The call just made, made on another engine.
Redo(engine) ==
    CASE call.op = "convertSingleValue" ->
            convertSingleValue(engine, call.sourceObject, call.typeInfo, call.memberOptions)
      [] call.op = "convertAsObject" ->
            convertAsObject(engine, call.sourceObject, call.typeInfo, call.memberOptions)
      [] call.op = "convertAsArray" ->
            convertAsArray(engine, call.sourceObject, call.typeInfo, call.memberOptions)
      [] call.op = "convertAsSet" ->
            convertAsSet(engine, call.sourceObject, call.typeInfo, call.memberOptions)
      [] call.op = "convertAsMap" ->
            convertAsMap(engine, call.sourceObject, call.typeInfo, call.memberOptions)

\* The call was a conversion on an engine whose error handler raises the
\* error it is given.
EscalationCase ==
    /\ call.op \in Conversions
    /\ before.errorHandler = "rethrow"

\* C18: with an error handler that raises, a conversion call in which any
\* recoverable error occurs (any error that the same call on an engine with
\* a handler that returns would have reported: a failed element, a missing
\* required member, a missing element or key type, an invalid initializer
\* result, a source that is not an object) raises to its caller the first
\* such error and returns no value; the handler never lets a call go on.
C18_Escalation ==
    EscalationCase =>
        LET calm == Redo([before EXCEPT !.errorHandler = "logError"])
            errs == ErrorEvents(calm.log)
            first == CHOOSE i \in errs : \A j \in errs : i <= j
            here == ErrorEvents(outcome.log)
        IN  /\ errs # {} =>
                /\ outcome.thrown
                /\ outcome.val.t = "error"
                /\ Message(outcome.val) = calm.log[first].arg
                /\ here # {}
                /\ \A j \in 1..Len(outcome.log) :
                        outcome.log[j] = IF j < first THEN calm.log[j] ELSE calm.log[first]
            /\ here # {} => outcome.thrown

C18_Witness ==
    /\ EscalationCase
    /\ call.op = "convertAsArray"
    /\ call.sourceObject = Arr(<< Arr(<< Num(1), Pair(Str("a"), Num(1)) >>), Num(1) >>)
    /\ call.typeInfo.elementConstructor = << "Array", "Number" >>
    /\ outcome = Throw(Err("TypeMismatch"),
                       << Ev("error", "TypeMismatch"), Ev("error", "TypeMismatch") >>)

\* The call converted an Array under a complete descriptor, on an engine
\* whose error handler returns.
CompleteCase ==
    /\ call.op \in Containers
    /\ HandlerReturns
    /\ IsArray(call.sourceObject)
    /\ ~NoKeyType
    /\ ~NoElementType

\* The raw values the call converts against the first element type, in
\* order: the elements of the source or, for convertAsMap, the values of
\* the pairs whose key is a defined value of the key type.
NestedSources ==
    LET e == call.sourceObject.e
    IN  IF call.op = "convertAsMap"
        THEN LET kept == SelectSeq(e, LAMBDA q :
                            /\ q.t = "object"
                            /\ ConstructorOf(ReadProp(q, "key")) = call.typeInfo.keyConstructor
                            /\ ReadProp(q, "key").t \notin {"undefined", "null"})
             IN  [i \in 1..Len(kept) |-> ReadProp(kept[i], "value")]
        ELSE e

\* The values the container returned holds, in order.
Held ==
    CASE outcome.val.t = "array" -> outcome.val.e
      [] outcome.val.t = "Set"   -> outcome.val.e
      [] outcome.val.t = "Map"   -> [j \in 1..Len(outcome.val.p) |-> outcome.val.p[j].v]

\* C19: the descriptor convertAsArray, convertAsSet and convertAsMap build
\* for their elements (values) has the first element type as constructor,
\* the remaining ones as element types, the same known types and never a
\* key constructor.  Hence, where the first element type is Map, every
\* element (value) that is an Array converts to an empty Map with one
\* missing-key-constructor report, whatever pairs it holds, and no Map in
\* the result has an entry.
C19_NestedMap ==
    CompleteCase =>
        LET ec == call.typeInfo.elementConstructor
            d == elementTypeInfo(call.typeInfo)
            nested == NestedSources
            arrays == {i \in 1..Len(nested) : IsArray(nested[i])}
            held == Held
        IN  /\ d.selfConstructor = ec[1]
            /\ d.elementConstructor = SubSeq(ec, 2, Len(ec))
            /\ d.knownTypes = call.typeInfo.knownTypes
            /\ d.keyConstructor = "undefined"
            /\ ec[1] = "Map" =>
                /\ ~outcome.thrown
                /\ Reported(outcome.log, "MissingKeyConstructor") = Cardinality(arrays)
                /\ \A j \in 1..Len(held) : held[j] \in {MapOf(<<>>), Undefined, Null}
                /\ arrays # {} => \E j \in 1..Len(held) : held[j] = MapOf(<<>>)
                /\ call.op = "convertAsArray" =>
                        \A i \in 1..Len(nested) : (i \in arrays) <=> (held[i] = MapOf(<<>>))
                /\ call.op = "convertAsSet" =>
                        Cardinality({j \in 1..Len(held) : held[j] = MapOf(<<>>)})
                            = Cardinality(arrays)

C19_Witness ==
    /\ CompleteCase
    /\ call.op = "convertAsMap"
    /\ call.typeInfo.elementConstructor = << "Map", "Number" >>
    /\ call.sourceObject = Arr(<< Pair(Str("b"), Arr(<< Pair(Str("a"), Num(1)) >>)) >>)
    /\ outcome = Ret(MapOf(<< Prop(Str("b"), MapOf(<<>>)) >>),
                     << Ev("error", "MissingKeyConstructor") >>)

\* The call handed a raw value that is not an Array to a container
\* operation under a complete descriptor, on an engine whose error handler
\* returns.
NotASequenceCase ==
    /\ call.op \in Containers
    /\ HandlerReturns
    /\ ~IsArray(call.sourceObject)
    /\ ~NoKeyType
    /\ ~NoElementType

\* C20: convertAsArray, convertAsSet and convertAsMap, called with a raw
\* value that is not an Array and a complete descriptor, raise nothing,
\* report exactly one type error (their only event) and return an empty
\* container of their kind.
C20_NotASequence ==
    NotASequenceCase =>
        outcome = Ret(EmptyContainer(call.op), << Ev("error", "TypeMismatch") >>)

\* convertAsMap reports the type error and goes on to iterate the number:
\* the call raises.
C20_Witness ==
    /\ NotASequenceCase
    /\ call.op = "convertAsMap"
    /\ call.sourceObject = Num(1)
    /\ call.typeInfo.elementConstructor = << "Number" >>
    /\ outcome = Throw(Err("NativeTypeError"), << Ev("error", "TypeMismatch") >>)

====
